---- MODULE Spec2Model ----
(***************************************************************************)
(* CourtTracker_V2: the ingest-and-dispatch core.                          *)
(*                                                                         *)
(* The ticker of startRealtimeScraper (cronService), scrapeCourtData       *)
(* (scraperService), upsertCurrentCourts (currentCourtService),            *)
(* processCaseUpdates / processWatchlist (trackingService, the first of    *)
(* the two variants the file holds, lines 1-278) and sendCaseAlert         *)
(* (fcmService), as one state machine.                                     *)
(*                                                                         *)
(* Time is counted in units of 5 seconds: every timing constant of the     *)
(* code is a multiple of 5 s.  A tick is an async function: it runs        *)
(* atomically between two awaits (Node runs one callback at a time), so    *)
(* every action below is the code between two suspension points of one    *)
(* tick, and ticks in flight interleave at those points.                   *)
(*                                                                         *)
(* JavaScript values: a nullable value is the empty sequence (null /       *)
(* undefined) or a one-element sequence; SHA-256 and JSON.stringify are    *)
(* taken to be injective on the values hashed, so a hash is modelled by    *)
(* the value it is the hash of.                                            *)
(*                                                                         *)
(* The CurrentCourt collection is modelled as storing every field that     *)
(* upsertCurrentCourts writes (dataHash, missingCount, isVisible,          *)
(* checkedAt, changedAt), also those CurrentCourtSchema does not declare.  *)
(***************************************************************************)
EXTENDS Integers, Sequences, FiniteSets, TLC

(* ------------------------------ constants ------------------------------ *)

\* cronService: SCRAPER_INTERVAL default 30000 ms, MAX_EXPECTED_RUNTIME 25000 ms,
\* BACKOFF_MS 2 min; trackingService: COOLDOWN_MS 5 min; scraperService: axios
\* timeout 15000 ms; currentCourtService: MISSING_THRESHOLD.  In 5 s units.
SCRAPER_INTERVAL == 6
MAX_EXPECTED_RUNTIME == 5
BACKOFF_MS == 24
COOLDOWN_MS == 60
HTTP_TIMEOUT == 3
MISSING_THRESHOLD == 3
\* processWatchlist: the miss threshold of the completed alert (missCount >= 2)
MISS_LIMIT == 2
\* part_002: the forced exit 10000 ms after the shutdown signal
SHUTDOWN_TIMEOUT == 2
\* isCourtHours: hour >= 10 && hour <= 17
OPEN_HOUR == 10
CLOSE_HOUR == 17
\* one hour, in 5 s units
HOUR_UNITS == 720

(* -------------------------------- bounds ------------------------------- *)

\* Two kinds of run are explored.  A board run follows few ticks over a varied
\* board; a scheduler run follows many ticks, which may take long and overlap,
\* over a board with little on it.
\* ticks a run starts at most (the cap of scrapeCount)
BoardTicks == 4
SchedTicks == 6
\* the clock stops at this time
BoardTime == 26
SchedTime == 40
\* a tick in flight ends within this many units of its start (the database
\* calls of a tick have no timeout of their own)
BoardRuntime == 0
SchedRuntime == 7
\* an overlap run follows two ticks, the first of which may outlast its lease,
\* while one device watches case A
OverlapTicks == 2
OverlapTime == 13
OverlapRuntime == 7
\* a dispatch run follows few instant ticks over boards of three courts while
\* one device watches the cases A and B
DispatchTicks == 3
DispatchTime == 20
\* a shutdown run follows few instant ticks and a shutdown signal
ShutdownTicks == 2
ShutdownTime == 14

Null == <<>>
Some(v) == <<v>>
IsNull(x) == x = <<>>
Val(x) == x[1]

(* ------------------------------- upstream ------------------------------ *)

\* the court codes of the courthouse (row.courtcode) and the case numbers shown
Codes == <<"c1", "c2", "c3">>
CodeSet == {Codes[i] : i \in 1..Len(Codes)}

\* row.caseinfo after cleanText: a case number, a case number with "(RECESS)",
\* "COURT SITTING OVER", or "-"
Footer(kind, num) == [kind |-> kind, num |-> num]
\* row.gsrno after cleanText: the empty string (<<>>) or a text whose first
\* integer is n (<<n>>)
\* the card #dv_<courtcode> of the page: its innerHTML (ver) and the text of
\* its #court_<courtcode> element
Card(ver, courtNumber) == [ver |-> ver, courtNumber |-> courtNumber]
Row(footer, gsrno, card) == [caseinfo |-> footer, gsrno |-> gsrno, card |-> card]
\* no row with this court code that has a card on the page (scraperService
\* lines 85-90 drop every other row)
NoRow == [caseinfo |-> Footer("none", ""), gsrno |-> <<>>, card |-> Card(0, "")]

RowA == Row(Footer("case", "A"), <<1>>, Card(1, "1"))
RowB == Row(Footer("case", "B"), <<2>>, Card(1, "2"))
RowBRecess == Row(Footer("recess", "B"), <<2>>, Card(1, "2"))
RowDash == Row(Footer("dash", ""), <<3>>, Card(1, "1"))

\* the boards the courthouse publishes in a board run and in a scheduler run
BoardRunBoards ==
    { [c \in CodeSet |-> IF c = "c1" THEN r1 ELSE IF c = "c2" THEN r2 ELSE NoRow] :
        r1 \in {NoRow, RowA}, r2 \in {NoRow, RowB, RowBRecess} }
SchedRunBoards ==
    { [c \in CodeSet |-> IF c = "c1" THEN r1 ELSE NoRow] : r1 \in {NoRow, RowDash} }

(* -------------------------------- parser ------------------------------- *)

\* scraperService lines 159-165: srNo = minimal.srNo || null, queuePosition the
\* first integer of srNo
SrNoOf(row) == IF row.gsrno = <<>> THEN Null ELSE Some(row.gsrno)
QueuePositionOf(row) == IF row.gsrno = <<>> THEN Null ELSE Some(row.gsrno[1])

\* scraperService lines 169-184
CaseStatusOf(footer) ==
    CASE footer.kind = "over" -> "SITTING_OVER"
      [] footer.kind = "recess" -> "RECESS"
      [] footer.kind = "case" -> "IN_SESSION"
      [] OTHER -> "null"
CaseNumberOf(footer) ==
    CASE footer.kind = "recess" -> footer.num
      [] footer.kind = "case" -> footer.num
      [] OTHER -> "null"

\* scraperService lines 196-214: courtObj (judgeName, streamUrl, judgePhotos,
\* isLive and the fields derived from them are functions of the card; caseType
\* and isActive are functions of caseStatus and the card)
CourtObj(code, row, scrapedAt) ==
    [ id |-> code,
      card |-> row.card.ver,
      courtNumber |-> row.card.courtNumber,
      srNo |-> SrNoOf(row),
      queuePosition |-> QueuePositionOf(row),
      caseNumber |-> CaseNumberOf(row.caseinfo),
      caseStatus |-> CaseStatusOf(row.caseinfo),
      scrapedAt |-> scrapedAt ]

\* scraperService lines 189-194: the snapshot kept per court code
SnapshotOf(row) ==
    [ hash |-> row.card,
      caseNumber |-> row.caseinfo,
      caseStatus |-> CaseStatusOf(row.caseinfo),
      srNo |-> SrNoOf(row) ]

\* scraperService lines 105-112: the fast exit; minimal.srNo is the cleaned
\* text itself, prev.srNo is srNo (null for the empty text)
Unchanged(prev, row) ==
    /\ ~IsNull(prev)
    /\ Val(prev).hash = row.card
    /\ Val(prev).caseNumber = row.caseinfo
    /\ Val(prev).srNo = Some(row.gsrno)

\* scraperService lines 220-225: the test that puts a court in changedCourts
Changed(prev, row) ==
    \/ IsNull(prev)
    \/ Val(prev).hash # row.card
    \/ Val(prev).caseNumber # row.caseinfo
    \/ Val(prev).srNo # Some(row.gsrno)

\* scraperService lines 84-112: the court codes whose rows reach full parsing
ParsedCodes(board, snaps) ==
    SelectSeq(Codes, LAMBDA c : board[c] # NoRow /\ ~Unchanged(snaps[c], board[c]))

\* scraperService line 217: allCourts, and lines 220-227: changedCourts
AllCourtsOf(board, snaps, scrapedAt) ==
    LET codes == ParsedCodes(board, snaps)
    IN  [k \in 1..Len(codes) |-> CourtObj(codes[k], board[codes[k]], scrapedAt)]
ChangedCourtsOf(board, snaps, scrapedAt) ==
    LET codes == SelectSeq(ParsedCodes(board, snaps),
                           LAMBDA c : Changed(snaps[c], board[c]))
    IN  [k \in 1..Len(codes) |-> CourtObj(codes[k], board[codes[k]], scrapedAt)]

\* scraperService lines 189-194: lastSnapshots after the loop
SnapshotsAfter(board, snaps) ==
    LET codes == ParsedCodes(board, snaps)
        hit == {codes[k] : k \in 1..Len(codes)}
    IN  [c \in CodeSet |-> IF c \in hit THEN Some(SnapshotOf(board[c])) ELSE snaps[c]]

(* ---------------------------- durable court view ----------------------- *)

\* currentCourtService lines 4-9
hashCourtData(data) == data

VisibleAfterMissOffByOne(newMissing) == newMissing <= MISSING_THRESHOLD
\* currentCourtService line 80
VisibleAfterMiss(newMissing) == newMissing < MISSING_THRESHOLD

\* currentCourtService lines 29-65: the update of a seen court (with upsert
\* when the stored hash differs or there is no entry)
SeenOp(prev, court, scrapedAt) ==
    IF ~IsNull(prev) /\ Val(prev).dataHash = hashCourtData(court)
    THEN [kind |-> "touch", upsert |-> FALSE,
          set |-> [Val(prev) EXCEPT !.checkedAt = scrapedAt, !.isVisible = TRUE,
                                    !.missingCount = 0]]
    ELSE [kind |-> "write", upsert |-> TRUE,
          set |-> [data |-> court, dataHash |-> hashCourtData(court),
                   checkedAt |-> scrapedAt, changedAt |-> scrapedAt,
                   isVisible |-> TRUE, missingCount |-> 0]]

\* currentCourtService lines 68-85: the update of a court of the view that the
\* tick did not see
MissingOp(doc, scrapedAt) ==
    LET newMissing == doc.missingCount + 1
    IN  [checkedAt |-> scrapedAt, missingCount |-> newMissing,
         isVisible |-> VisibleAfterMiss(newMissing)]

First(courts, Test(_)) ==
    LET hits == SelectSeq(courts, Test)
    IN  IF Len(hits) = 0 THEN Null ELSE Some(hits[1])

\* currentCourtService lines 26-89: the view after bulkWrite has applied the
\* operations computed from `existing` (the entries read by find) to `view`
\* (the entries stored when the write arrives).  An updateOne without upsert
\* changes nothing when its entry is gone; a partial $set keeps the other
\* fields of the stored entry.
ViewAfterUpsert(view, existing, allCourts, scrapedAt) ==
    [c \in CodeSet |->
        LET seen == First(allCourts, LAMBDA x : x.id = c)
        IN  IF ~IsNull(seen)
            THEN LET op == SeenOp(existing[c], Val(seen), scrapedAt)
                 IN  IF op.kind = "write" THEN Some(op.set)
                     ELSE IF IsNull(view[c]) THEN Null
                     ELSE Some([Val(view[c]) EXCEPT !.checkedAt = op.set.checkedAt,
                                                    !.isVisible = TRUE,
                                                    !.missingCount = 0])
            ELSE IF IsNull(existing[c]) \/ IsNull(view[c]) THEN view[c]
            ELSE LET m == MissingOp(Val(existing[c]), scrapedAt)
                 IN  Some([Val(view[c]) EXCEPT !.checkedAt = m.checkedAt,
                                                !.missingCount = m.missingCount,
                                                !.isVisible = m.isVisible])]

(* ------------------------------ tracking ------------------------------- *)

cooldownPassedAlways(lastTime, t) == TRUE
\* trackingService lines 14-16
cooldownPassed(lastTime, t) == IsNull(lastTime) \/ t - Val(lastTime) > COOLDOWN_MS

\* trackingService lines 21-28 and 33-38
STATE_TO_ALERT(state) ==
    CASE state \in {"FAR", "NEAR"} -> "early_warning"
      [] state \in {"VERY_NEAR", "NEXT"} -> "approaching"
      [] state = "IN_SESSION" -> "in_session"
      [] state = "COMPLETED" -> "completed"
      [] OTHER -> "null"
ALERT_TO_SETTINGSwapped(alert) ==
    CASE alert = "early_warning" -> "approaching"
      [] alert = "approaching" -> "earlyWarning"
      [] alert = "in_session" -> "inSession"
      [] alert = "completed" -> "completed"
      [] OTHER -> "null"
ALERT_TO_SETTING(alert) ==
    CASE alert = "early_warning" -> "earlyWarning"
      [] alert = "approaching" -> "approaching"
      [] alert = "in_session" -> "inSession"
      [] alert = "completed" -> "completed"
      [] OTHER -> "null"

\* Array.prototype.sort by queuePosition (stable insertion)
RECURSIVE InsertByPosition(_, _)
InsertByPosition(sorted, c) ==
    IF Len(sorted) = 0 THEN <<c>>
    ELSE IF Val(c.queuePosition) < Val(Head(sorted).queuePosition)
         THEN <<c>> \o sorted
         ELSE <<Head(sorted)>> \o InsertByPosition(Tail(sorted), c)
RECURSIVE SortByPosition(_)
SortByPosition(courts) ==
    IF Len(courts) = 0 THEN <<>>
    ELSE InsertByPosition(SortByPosition(SubSeq(courts, 1, Len(courts) - 1)),
                          courts[Len(courts)])

\* trackingService lines 71-73: the pending list of one court number
PendingOfWithOver(courts, courtNumber) ==
    SortByPosition(SelectSeq(courts, LAMBDA c :
        /\ c.courtNumber = courtNumber
        /\ ~IsNull(c.queuePosition)
        /\ c.caseStatus \notin {"IN_SESSION"}))
PendingOf(courts, courtNumber) ==
    SortByPosition(SelectSeq(courts, LAMBDA c :
        /\ c.courtNumber = courtNumber
        /\ ~IsNull(c.queuePosition)
        /\ c.caseStatus \notin {"IN_SESSION", "SITTING_OVER"}))

\* trackingService line 76: Array.prototype.find(...) || null
CurrentCaseOf(courts, courtNumber) ==
    LET inSession == SelectSeq(courts, LAMBDA c :
            c.courtNumber = courtNumber /\ c.caseStatus = "IN_SESSION")
    IN  IF Len(inSession) = 0 THEN Null ELSE Some(Head(inSession))

\* trackingService lines 58-81: one queue per court number, none for a court
\* without court number
buildCourtQueues(courts) ==
    [ n \in {courts[k].courtNumber : k \in 1..Len(courts)} \ {""} |->
        [pending |-> PendingOf(courts, n), currentCase |-> CurrentCaseOf(courts, n)] ]

\* Array.prototype.findIndex, 0-based, -1 when absent
RECURSIVE FindIndexFrom(_, _, _)
FindIndexFrom(courts, caseNumber, k) ==
    IF k > Len(courts) THEN -1
    ELSE IF courts[k].caseNumber = caseNumber THEN k - 1
    ELSE FindIndexFrom(courts, caseNumber, k + 1)

\* trackingService lines 146-149: queue?.pending || [], findIndex + 1 || null
\* (courtQueues has no entry for an empty court number)
PositionOf(courts, court, caseNumber) ==
    LET courtQueues == buildCourtQueues(courts)
        pending == IF court.courtNumber \in DOMAIN courtQueues
                   THEN courtQueues[court.courtNumber].pending ELSE <<>>
        p == FindIndexFrom(pending, caseNumber, 1) + 1
    IN  IF p = 0 THEN Null ELSE Some(p)

\* trackingService lines 151-152: lastSeenPosition && position ?
\* lastSeenPosition - position : 0
VelocityOfBackwards(lastSeenPosition, position) ==
    IF IsNull(lastSeenPosition) \/ IsNull(position) THEN 0
    ELSE Val(position) - Val(lastSeenPosition)
VelocityOf(lastSeenPosition, position) ==
    IF IsNull(lastSeenPosition) \/ IsNull(position) THEN 0
    ELSE Val(lastSeenPosition) - Val(position)

\* JavaScript's position <= n: null compares as 0
PosLE(position, n) == IF IsNull(position) THEN 0 <= n ELSE Val(position) <= n

NewStateOfNoNext(court, position) ==
    IF court.caseStatus = "IN_SESSION" THEN "IN_SESSION"
    ELSE IF PosLE(position, 3) THEN "VERY_NEAR"
    ELSE IF PosLE(position, 10) THEN "NEAR"
    ELSE IF ~IsNull(position) THEN "FAR"
    ELSE "null"
\* trackingService lines 156-162
NewStateOf(court, position) ==
    IF court.caseStatus = "IN_SESSION" THEN "IN_SESSION"
    ELSE IF position = Some(1) THEN "NEXT"
    ELSE IF PosLE(position, 3) THEN "VERY_NEAR"
    ELSE IF PosLE(position, 10) THEN "NEAR"
    ELSE IF ~IsNull(position) THEN "FAR"
    ELSE "null"

\* models/index.js lines 49-53: the values a save accepts for lastSeenStatus
LastSeenStatusEnum == {"FAR", "NEAR", "VERY_NEAR", "NEXT", "LIVE", "COMPLETED"}

\* models/index.js lines 204-207: the unique index of NotificationLog
LogKey(e) == <<e.deviceId, e.caseNumber, e.notificationType, e.courtNumber>>

\* fcmService lines 171-236: one call of sendCaseAlert.  The push is handed
\* to the gateway (pushOk: what sendNotification reports), then
\* NotificationLog.create runs and throws on a duplicate key.
SendCaseAlert(w, alertType, courtNumber, position, velocity, t, log, pushOk) ==
    LET entry == [deviceId |-> w.deviceId, caseNumber |-> w.caseNumber,
                  notificationType |-> alertType, courtNumber |-> courtNumber,
                  success |-> pushOk]
        dup == \E e \in log : LogKey(e) = LogKey(entry)
    IN  [ push |-> [deviceId |-> w.deviceId, caseNumber |-> w.caseNumber,
                    type |-> alertType, position |-> position,
                    velocity |-> velocity, at |-> t, success |-> pushOk],
          log |-> IF dup THEN log ELSE log \cup {entry},
          threw |-> dup ]

\* Document.prototype.save: the modified paths are validated, then written
SaveThrows(loaded, doc) ==
    /\ doc.lastSeenStatus # loaded.lastSeenStatus
    /\ doc.lastSeenStatus \notin LastSeenStatusEnum
SavedDoc(stored, loaded, doc) ==
    [f \in DOMAIN stored |-> IF doc[f] # loaded[f] THEN doc[f] ELSE stored[f]]

\* the result of a processWatchlist call that sends nothing and saves nothing
Untouched(w, log) ==
    [doc |-> w, save |-> FALSE, pushes |-> <<>>, log |-> log, threw |-> FALSE,
     found |-> FALSE, newState |-> "null", position |-> Null]

\* trackingService lines 124-141: the case is not among the courts
NotFound(w, t, log, pushOk) ==
    LET missCount == w.missCount + 1
        alert == /\ missCount >= MISS_LIMIT
                 /\ w.lastSeenStatus # "COMPLETED"
                 /\ w.notificationSettings.completed
                 /\ cooldownPassed(w.lastNotificationTime, t)
        sent == SendCaseAlert(w, "completed", "null", Null, Null, t, log, pushOk)
    IN  IF ~alert
        THEN [doc |-> [w EXCEPT !.missCount = missCount], save |-> TRUE,
              pushes |-> <<>>, log |-> log, threw |-> FALSE, found |-> FALSE,
              newState |-> "null", position |-> Null]
        ELSE IF sent.threw
        THEN [doc |-> [w EXCEPT !.missCount = missCount], save |-> FALSE,
              pushes |-> <<sent.push>>, log |-> sent.log, threw |-> TRUE,
              found |-> FALSE, newState |-> "null", position |-> Null]
        ELSE [doc |-> [w EXCEPT !.missCount = missCount,
                                !.lastSeenStatus = "COMPLETED",
                                !.lastNotificationTime = Some(t)],
              save |-> TRUE, pushes |-> <<sent.push>>, log |-> sent.log,
              threw |-> FALSE, found |-> FALSE, newState |-> "null",
              position |-> Null]

SeenAtWithStatus(doc, court, position) ==
    [doc EXCEPT !.lastSeenStatus = NewStateOf(court, position),
                !.lastSeenPosition = position, !.lastSeenCourt = court.courtNumber]
\* trackingService lines 196-197: what every call that finds the case notes
SeenAt(doc, court, position) ==
    [doc EXCEPT !.lastSeenPosition = position, !.lastSeenCourt = court.courtNumber]

\* trackingService lines 143-200: the case is shown by `court`
Found(w, court, courts, t, log, pushOk) ==
    LET position == PositionOf(courts, court, w.caseNumber)
        newState == NewStateOf(court, position)
        alertType == STATE_TO_ALERT(newState)
        settingKey == ALERT_TO_SETTING(alertType)
        alert == /\ newState # "null"
                 /\ newState # w.lastSeenStatus
                 /\ alertType # "null" /\ settingKey # "null"
                 /\ w.notificationSettings[settingKey]
                 /\ cooldownPassed(w.lastNotificationTime, t)
        sent == SendCaseAlert(w, alertType, court.courtNumber, position,
                              Some(VelocityOf(w.lastSeenPosition, position)),
                              t, log, pushOk)
        seen == [w EXCEPT !.missCount = 0]
    IN  IF ~alert
        THEN [doc |-> SeenAt(seen, court, position),
              save |-> TRUE, pushes |-> <<>>, log |-> log, threw |-> FALSE,
              found |-> TRUE, newState |-> newState, position |-> position]
        ELSE IF sent.threw
        THEN [doc |-> seen, save |-> FALSE, pushes |-> <<sent.push>>,
              log |-> sent.log, threw |-> TRUE, found |-> TRUE,
              newState |-> newState, position |-> position]
        ELSE [doc |-> SeenAt([seen EXCEPT !.lastSeenStatus = newState,
                                          !.lastNotificationTime = Some(t)],
                             court, position),
              save |-> TRUE, pushes |-> <<sent.push>>, log |-> sent.log,
              threw |-> FALSE, found |-> TRUE, newState |-> newState,
              position |-> position]

processWatchlistAnyToken(w, courts, devs, t, log, pushOk) ==
    IF ~devs[w.deviceId].isActive
    THEN Untouched(w, log)
    ELSE LET court == First(courts, LAMBDA c : c.caseNumber = w.caseNumber)
         IN  IF IsNull(court) THEN NotFound(w, t, log, pushOk)
             ELSE Found(w, Val(court), courts, t, log, pushOk)
\* trackingService lines 108-200: processWatchlist on the loaded document w
\* (deviceMap holds the active devices only, lines 92-93)
processWatchlist(w, courts, devs, t, log, pushOk) ==
    IF ~devs[w.deviceId].isActive \/ IsNull(devs[w.deviceId].fcmToken)
    THEN Untouched(w, log)
    ELSE LET court == First(courts, LAMBDA c : c.caseNumber = w.caseNumber)
         IN  IF IsNull(court) THEN NotFound(w, t, log, pushOk)
             ELSE Found(w, Val(court), courts, t, log, pushOk)

(* ------------------------------ historian ------------------------------ *)

\* trackingService lines 40-54 (judgeName, benchType, streamUrl and isLive
\* are functions of the card)
buildHistoryEvent(court, scrapedAt) ==
    [ caseNumber |-> court.caseNumber, courtNumber |-> court.courtNumber,
      status |-> court.caseStatus, position |-> court.queuePosition,
      card |-> court.card, scrapedAt |-> scrapedAt ]

\* models/index.js lines 107-110: the unique index of CaseHistory
HistoryKey(e) == <<e.caseNumber, e.status, e.position, e.courtNumber, e.scrapedAt>>

EmitsOnCaseOnly(state, key, current) ==
    \/ key \notin DOMAIN state
    \/ state[key].caseNumber # current.caseNumber
\* trackingService lines 219-230: no entry of the court number, or an entry
\* that differs in caseNumber, status or queuePosition
Emits(state, key, current) ==
    \/ key \notin DOMAIN state
    \/ state[key] # current

\* trackingService lines 207-234: the loop over the courts, from court k on;
\* state is lastCourtState, events the history events collected so far
RECURSIVE HistoryLoop(_, _, _, _, _)
HistoryLoop(courts, k, scrapedAt, state, events) ==
    IF k > Len(courts) THEN [state |-> state, events |-> events]
    ELSE LET court == courts[k]
             key == court.courtNumber
             current == [caseNumber |-> court.caseNumber, status |-> court.caseStatus,
                         queuePosition |-> court.queuePosition]
             emit == Emits(state, key, current)
         IN  IF court.caseNumber = "null"
             THEN HistoryLoop(courts, k + 1, scrapedAt, state, events)
             ELSE IF emit
             THEN HistoryLoop(courts, k + 1, scrapedAt,
                              [x \in DOMAIN state \cup {key} |->
                                  IF x = key THEN current ELSE state[x]],
                              Append(events, buildHistoryEvent(court, scrapedAt)))
             ELSE HistoryLoop(courts, k + 1, scrapedAt, state, events)

\* the unique index refuses an event whose key is stored already
Refused(history, e) == \E x \in history : HistoryKey(x) = HistoryKey(e)

\* CaseHistory.insertMany(events, { ordered: false }): every event whose key
\* is not stored yet is stored; the call throws when any was refused.
\* `inserted` counts the rows written.
RECURSIVE InsertMany(_, _, _)
InsertMany(history, events, k) ==
    IF k > Len(events) THEN [history |-> history, threw |-> FALSE, inserted |-> 0]
    ELSE LET dup == Refused(history, events[k])
             rest == InsertMany(IF dup THEN history ELSE history \cup {events[k]},
                                events, k + 1)
         IN  [history |-> rest.history, threw |-> dup \/ rest.threw,
              inserted |-> rest.inserted + (IF dup THEN 0 ELSE 1)]

\* trackingService lines 204-240: processGlobalCaseHistory as one call
processGlobalCaseHistory(state, history, courts, scrapedAt) ==
    LET loop == HistoryLoop(courts, 1, scrapedAt, state, <<>>)
        res == InsertMany(history, loop.events, 1)
    IN  [state |-> loop.state, events |-> loop.events, history |-> res.history,
         inserted |-> res.inserted, threw |-> res.threw]

\* trackingService line 265: $slice: -100
STATS_TAIL == 100
Tail100First(seq) ==
    IF Len(seq) <= STATS_TAIL THEN seq ELSE SubSeq(seq, 1, STATS_TAIL)
Tail100(seq) ==
    IF Len(seq) <= STATS_TAIL THEN seq
    ELSE SubSeq(seq, Len(seq) - STATS_TAIL + 1, Len(seq))

\* trackingService lines 244-272: the upserts of updateCaseStatistics, from
\* court k on
RECURSIVE StatsLoop(_, _, _, _)
StatsLoop(stats, courts, k, t) ==
    IF k > Len(courts) THEN stats
    ELSE LET c == courts[k]
             old == IF c.caseNumber \in DOMAIN stats THEN stats[c.caseNumber]
                    ELSE [totalAppearances |-> 0, lastSeen |-> t, courts |-> {},
                          statusHistory |-> <<>>]
             new == [ totalAppearances |-> old.totalAppearances + 1,
                      lastSeen |-> t,
                      courts |-> old.courts \cup {c.courtNumber},
                      statusHistory |->
                          Tail100(Append(old.statusHistory,
                              [status |-> c.caseStatus, timestamp |-> t,
                               courtNumber |-> c.courtNumber,
                               queuePosition |-> c.queuePosition])) ]
         IN  IF c.caseNumber = "null" THEN StatsLoop(stats, courts, k + 1, t)
             ELSE StatsLoop([x \in DOMAIN stats \cup {c.caseNumber} |->
                                IF x = c.caseNumber THEN new ELSE stats[x]],
                            courts, k + 1, t)

(* -------------------------------- state -------------------------------- *)

VARIABLES
    run,               \* what this run explores: its boards and its bounds
    now,               \* Date.now(), in 5 s units since the process started
    nextFire,          \* the time of the next setInterval callback
    scraperLockUntil,  \* cronService line 16
    backoffUntil,      \* cronService line 17
    scrapeCount,       \* cronService line 14
    lastCourtData,     \* cronService line 12
    lastScrapeTime,    \* cronService line 13
    ticks,             \* the executions of the setInterval callback
    lastETag,          \* scraperService lines 26-27 (with lastModified)
    lastSnapshots,     \* scraperService line 21
    currentCourts,     \* the CurrentCourt collection, by courtCode
    lastCourtState,    \* trackingService line 6
    caseHistory,       \* the CaseHistory collection
    caseStats,         \* the CaseStatistics collection, by caseNumber
    watchlists,        \* the Watchlist collection
    devices,           \* the Device collection, by deviceId
    notificationLog,   \* the NotificationLog collection
    pushes,            \* every call of sendCaseAlert so far, in order
    broadcasts,        \* every call of broadcastCourtUpdate so far, in order
    last,              \* how the tick that ended last went
    lastErrorAt,       \* when a tick last threw
    lastWatch,         \* how the latest call of processWatchlist went
    caseAbsent,        \* per case: the latest boards in a row not showing it
    courtAbsent,       \* per court: the latest boards in a row without it
    shutdownInitiated, \* part_002 line 101
    shutdownAt,        \* when the shutdown signal arrived
    exited,            \* process.exit: the exit code and the time, once called
    lastQueues         \* the latest call of buildCourtQueues: input and result

clockVars == <<run, now, nextFire>>
cacheVars == <<lastETag, lastSnapshots, lastCourtState>>
storeVars == <<currentCourts, caseHistory, caseStats, watchlists, devices,
               notificationLog>>
seenVars == <<caseAbsent, courtAbsent>>
noteVars == <<pushes, broadcasts, lastWatch>>
procVars == <<shutdownInitiated, shutdownAt, exited>>
vars == <<run, now, nextFire, scraperLockUntil, backoffUntil, scrapeCount,
          lastCourtData, lastScrapeTime, ticks, lastETag, lastSnapshots,
          currentCourts, lastCourtState, caseHistory, caseStats, watchlists,
          devices, notificationLog, pushes, broadcasts, last, lastErrorAt,
          lastWatch, caseAbsent, courtAbsent, shutdownInitiated, shutdownAt,
          exited, lastQueues>>

Cases == {"A", "B"}

\* a tick that has not started; a tick that has ended
IdleTick ==
    [ pc |-> "idle", startedAt |-> 0, reqAt |-> 0, xhr |-> 0, board |-> Null,
      allCourts |-> <<>>, changedCourts |-> <<>>, scrapedAt |-> Null,
      existing |-> Null, events |-> <<>>, loaded |-> <<>>, idx |-> 0,
      did |-> {}, backoffSeen |-> Null ]
DoneTick == [IdleTick EXCEPT !.pc = "done"]

InFlight == {i \in DOMAIN ticks : ticks[i].pc \notin {"idle", "done"}}

\* models/index.js lines 20-69: a Watchlist document as subscribing creates it
NewWatch(caseNumber, deviceId) ==
    [ caseNumber |-> caseNumber, deviceId |-> deviceId, isActive |-> TRUE,
      notificationSettings |-> [earlyWarning |-> TRUE, approaching |-> TRUE,
                                inSession |-> TRUE, completed |-> TRUE],
      lastNotificationTime |-> Null, lastSeenStatus |-> "null",
      lastSeenCourt |-> "null", lastSeenPosition |-> Null, missCount |-> 0 ]

Min(a, b) == IF a < b THEN a ELSE b

(* ------------------------------- guards -------------------------------- *)

\* new Date().getHours()
getHours(t) == (run.startHour + ((run.startOffset + t) \div HOUR_UNITS)) % 24

isCourtHoursFromNine == getHours(now) >= OPEN_HOUR - 1 /\ getHours(now) <= CLOSE_HOUR
\* cronService lines 25-28
isCourtHours == getHours(now) >= OPEN_HOUR /\ getHours(now) <= CLOSE_HOUR
\* cronService lines 30-32
isLocked == now < scraperLockUntil
isInBackoffShort == now + MAX_EXPECTED_RUNTIME < backoffUntil
\* cronService lines 34-36
isInBackoff == now < backoffUntil
\* cronService line 84
BackoffAfter(t) == t + BACKOFF_MS
LockAfterNone(t) == t
\* cronService line 46
LockAfter(t) == t + MAX_EXPECTED_RUNTIME

(* ----------------------------- initial state --------------------------- *)

\* models/index.js lines 6-18: a Device document, of which isActive and
\* fcmToken matter here: registered and active; not among the active devices
\* (deactivated, or never registered); active with no push token in the
\* stored document (the case trackingService line 120 provides for)
ActiveDevice == [isActive |-> TRUE, fcmToken |-> Some("t1")]
DeviceDocs ==
    { ActiveDevice, [isActive |-> FALSE, fcmToken |-> Some("t1")],
      [isActive |-> TRUE, fcmToken |-> Null] }
\* the device of a run: any of the three in a watchlist run over the varied
\* lists, the active one elsewhere
RunDevices == IF run.kind = "watch" /\ ~run.long THEN DeviceDocs ELSE {ActiveDevice}

InitCommon ==
    /\ now = 0
    /\ nextFire = SCRAPER_INTERVAL
    /\ scraperLockUntil = 0
    /\ backoffUntil = 0
    /\ scrapeCount = 0
    /\ lastCourtData = Null
    /\ lastScrapeTime = Null
    /\ ticks = [i \in 1..run.maxTicks |-> IdleTick]
    /\ lastETag = Null
    /\ lastSnapshots = [c \in CodeSet |-> Null]
    /\ currentCourts = [c \in CodeSet |-> Null]
    /\ lastCourtState = <<>>
    /\ caseHistory = {}
    /\ caseStats = <<>>
    /\ devices \in [{"d1"} -> RunDevices]
    /\ notificationLog = {}
    /\ pushes = <<>>
    /\ broadcasts = <<>>
    /\ last = [id |-> 0, xhr |-> 0, skipped |-> FALSE, threw |-> FALSE, did |-> {}]
    /\ lastErrorAt = Null
    /\ lastWatch = [tick |-> 0, watch |-> 0, onBoard |-> FALSE, absentRun |-> 0,
                    found |-> FALSE, saved |-> FALSE, sent |-> "null",
                    completed |-> FALSE, at |-> 0, before |-> Null, after |-> Null,
                    newState |-> "null", position |-> Null, court |-> Null,
                    courts |-> <<>>, details |-> Null,
                    threw |-> FALSE, changedAt |-> Null]
    /\ caseAbsent = [c \in Cases |-> 0]
    /\ courtAbsent = [c \in CodeSet |-> 0]
    /\ shutdownInitiated = FALSE
    /\ shutdownAt = Null
    /\ exited = Null
    /\ lastQueues = [courts |-> <<>>, courtQueues |-> <<>>]

\* a board run: the process starts in court hours; one device watches case A
Init ==
    /\ run = [ kind |-> "board", boards |-> BoardRunBoards, maxTicks |-> BoardTicks,
               maxTime |-> BoardTime, maxRuntime |-> BoardRuntime,
               startHour |-> OPEN_HOUR, startOffset |-> 0 ]
    /\ watchlists = <<NewWatch("A", "d1")>>
    /\ InitCommon

\* a scheduler run: the process starts in court hours, 1 minute before they
\* begin or 90 s before they end; nobody watches a case
InitSched ==
    /\ \E start \in { <<OPEN_HOUR, 0>>, <<OPEN_HOUR - 1, HOUR_UNITS - 12>>,
                       <<CLOSE_HOUR, HOUR_UNITS - 18>> } :
          run = [ kind |-> "sched", boards |-> SchedRunBoards, maxTicks |-> SchedTicks,
                  maxTime |-> SchedTime, maxRuntime |-> SchedRuntime,
                  startHour |-> start[1], startOffset |-> start[2] ]
    /\ watchlists = <<>>
    /\ InitCommon

\* the boards of an overlap run: court c1 in recess with case A, alone as
\* court "1" with serial number 1, or as court "2" with serial number 2 behind
\* court c2 of the same court number, in recess with case B
OverlapBoards ==
    { [c \in CodeSet |->
          IF c = "c1" THEN Row(Footer("recess", "A"), <<1>>, Card(1, "1")) ELSE NoRow],
      [c \in CodeSet |->
          IF c = "c1" THEN Row(Footer("recess", "A"), <<2>>, Card(2, "2"))
          ELSE IF c = "c2" THEN Row(Footer("recess", "B"), <<1>>, Card(1, "2"))
          ELSE NoRow] }

\* an overlap run: the process starts in court hours; one device watches case A
InitOverlap ==
    /\ run = [ kind |-> "overlap", boards |-> OverlapBoards, maxTicks |-> OverlapTicks,
               maxTime |-> OverlapTime, maxRuntime |-> OverlapRuntime,
               startHour |-> OPEN_HOUR, startOffset |-> 0 ]
    /\ watchlists = <<NewWatch("A", "d1")>>
    /\ InitCommon

\* the boards of a dispatch run: three courts under the court number "1";
\* c1 absent, hearing case A or in recess with it, c2 absent, in recess with
\* case B or idle with no serial number, c3 absent or in recess with case A
\* under the serial number of c1
DispatchBoards ==
    { [c \in CodeSet |-> IF c = "c1" THEN r1 ELSE IF c = "c2" THEN r2 ELSE r3] :
        r1 \in { NoRow, Row(Footer("case", "A"), <<1>>, Card(1, "1")),
                 Row(Footer("recess", "A"), <<1>>, Card(1, "1")) },
        r2 \in { NoRow, Row(Footer("recess", "B"), <<2>>, Card(1, "1")),
                 Row(Footer("dash", ""), <<>>, Card(1, "1")) },
        r3 \in { NoRow, Row(Footer("recess", "A"), <<1>>, Card(1, "1")) } }

\* a dispatch run: the process starts in court hours; one device watches the
\* cases A and B
InitDispatch ==
    /\ run = [ kind |-> "dispatch", boards |-> DispatchBoards,
               maxTicks |-> DispatchTicks, maxTime |-> DispatchTime,
               maxRuntime |-> 0, startHour |-> OPEN_HOUR, startOffset |-> 0 ]
    /\ watchlists = <<NewWatch("A", "d1"), NewWatch("B", "d1")>>
    /\ InitCommon

(* ------------------------------- the clock ----------------------------- *)

\* part_002 lines 157-160: the time the forced exit of a shutdown under way
\* is due (the end of the run when there is none)
ForceExitAt ==
    IF shutdownInitiated THEN Val(shutdownAt) + SHUTDOWN_TIMEOUT ELSE run.maxTime
\* with no tick in flight the timers are all that happens: the next fire and
\* the forced exit
IdleUntil == Min(Min(nextFire, run.maxTime), ForceExitAt)

\* Time passes.  The ticker fires on time; a pending HTTP request ends within
\* its axios timeout; the forced exit of a shutdown is on time; with no tick
\* in flight nothing happens before the next timer.
Advance ==
    /\ now < run.maxTime
    /\ now < nextFire
    /\ now < ForceExitAt
    /\ \A i \in InFlight :
          /\ now - ticks[i].startedAt < run.maxRuntime
          /\ ticks[i].pc \in {"xhr", "page"} => now - ticks[i].reqAt < HTTP_TIMEOUT
    /\ now' = IF InFlight = {} THEN IdleUntil ELSE now + 1
    /\ UNCHANGED <<procVars, lastQueues, run, nextFire, scraperLockUntil, backoffUntil, scrapeCount,
                   lastCourtData, lastScrapeTime, ticks, noteVars, last,
                   lastErrorAt>>
    /\ UNCHANGED <<cacheVars, storeVars, seenVars>>

(* ------------------------------ the ticker ----------------------------- *)

\* cronService lines 43-53: the setInterval callback up to its first await,
\* the XHR request of scrapeCourtData (scraperService lines 35-44)
TickerFire ==
    /\ now = nextFire
    /\ nextFire' = nextFire + SCRAPER_INTERVAL
    /\ IF ~isCourtHours \/ isLocked \/ isInBackoff
       THEN UNCHANGED <<scraperLockUntil, scrapeCount, ticks>>
       ELSE /\ scrapeCount < run.maxTicks
            /\ scraperLockUntil' = LockAfter(now)
            /\ scrapeCount' = scrapeCount + 1
            /\ ticks' = [ticks EXCEPT ![scrapeCount + 1] =
                            [IdleTick EXCEPT !.pc = "xhr", !.startedAt = now,
                                             !.reqAt = now,
                                             !.backoffSeen = lastErrorAt]]
    /\ UNCHANGED <<procVars, lastQueues, run, now, backoffUntil, lastCourtData, lastScrapeTime, noteVars,
                   last, lastErrorAt>>
    /\ UNCHANGED <<cacheVars, storeVars, seenVars>>

\* cronService lines 79-87: how a tick ends.  A thrown error reaches the catch
\* clause; the finally clause runs on every path.
EndTick(i, xhr, threw, skipped, did, scrapedAt) ==
    /\ ticks' = [ticks EXCEPT ![i] = DoneTick]
    /\ backoffUntil' = IF threw THEN BackoffAfter(now) ELSE backoffUntil
    /\ lastErrorAt' = IF threw THEN Some(now) ELSE lastErrorAt
    /\ lastScrapeTime' = IF threw THEN lastScrapeTime ELSE scrapedAt
    /\ scraperLockUntil' = 0
    /\ last' = [id |-> i, xhr |-> xhr, skipped |-> skipped, threw |-> threw,
                did |-> did]

\* what a board observed by a tick adds to the runs of absence
AbsentAfter(board) ==
    /\ caseAbsent' = [c \in Cases |->
          IF \E code \in CodeSet : CaseNumberOf(board[code].caseinfo) = c THEN 0
          ELSE Min(caseAbsent[c] + 1, MISSING_THRESHOLD)]
    /\ courtAbsent' = [code \in CodeSet |->
          IF board[code] # NoRow THEN 0
          ELSE Min(courtAbsent[code] + 1, MISSING_THRESHOLD)]

\* currentCourtService line 13: allCourts.length throws a TypeError when
\* allCourts is undefined
LengthThrows(allCourts) == IsNull(allCourts)

(* ------------------------------ the fetcher ---------------------------- *)

\* scraperService lines 35-47 and 238-241: the XHR request fails (network,
\* timeout, a status other than 200 and 304); the error reaches the scheduler
XhrFail(i) ==
    /\ ticks[i].pc = "xhr"
    /\ EndTick(i, 0, TRUE, FALSE, ticks[i].did, Null)
    /\ UNCHANGED <<procVars, lastQueues, clockVars, scrapeCount, lastCourtData, noteVars>>
    /\ UNCHANGED <<cacheVars, storeVars, seenVars>>

\* the status the courthouse answers the XHR request with when it publishes
\* `board`: 304 to the conditional headers of that very board (scraperService
\* lines 39-40), else 200
StatusFor(board) == IF lastETag = Some(board) THEN 304 ELSE 200

NotModifiedIgnored(status) == FALSE
\* scraperService line 50
NotModified(status) == status = 304

\* scraperService lines 49-69: the XHR request is answered.  On 304
\* scrapeCourtData returns { skipped } without allCourts and scrapedAt, and
\* cronService line 56 passes them to upsertCurrentCourts, whose line 13 reads
\* allCourts.length.  On 200 the conditional headers are stored and the page
\* is requested.
XhrRespond(i, board) ==
    LET status == StatusFor(board)
    IN  /\ ticks[i].pc = "xhr"
        /\ IF NotModified(status)
           THEN /\ AbsentAfter(board)
                /\ EndTick(i, status, LengthThrows(Null), TRUE, ticks[i].did, Null)
                /\ UNCHANGED lastETag
           ELSE /\ lastETag' = Some(board)
                /\ ticks' = [ticks EXCEPT ![i].pc = "page", ![i].xhr = status,
                                          ![i].reqAt = now,
                                          ![i].board = Some(board),
                                          ![i].did = @ \cup {"page"}]
                /\ UNCHANGED <<scraperLockUntil, backoffUntil, lastScrapeTime, last,
                               lastErrorAt, seenVars>>
        /\ UNCHANGED <<procVars, lastQueues, clockVars, scrapeCount, lastCourtData, noteVars, lastSnapshots,
                       lastCourtState>>
        /\ UNCHANGED storeVars

\* scraperService lines 64-73: the page request fails, or the XHR payload is
\* no JSON
PageFail(i) ==
    /\ ticks[i].pc = "page"
    /\ EndTick(i, ticks[i].xhr, TRUE, FALSE, ticks[i].did, Null)
    /\ UNCHANGED <<procVars, lastQueues, clockVars, scrapeCount, lastCourtData, noteVars>>
    /\ UNCHANGED <<cacheVars, storeVars, seenVars>>

DispatchesAlways(skipped, changedCourts) == TRUE
\* cronService line 66: the test before processCaseUpdates and
\* broadcastCourtUpdate
Dispatches(skipped, changedCourts) == ~skipped /\ Len(changedCourts) > 0

\* scraperService lines 71-237: the page arrives and the rows are parsed; then
\* cronService line 56 and currentCourtService lines 13-20.  With no court
\* parsed upsertCurrentCourts returns at once, changedCourts is empty too, and
\* the tick ends (cronService lines 59-87).
PageOk(i) ==
    LET board == Val(ticks[i].board)
        allCourts == AllCourtsOf(board, lastSnapshots, now)
        changedCourts == ChangedCourtsOf(board, lastSnapshots, now)
    IN  /\ ticks[i].pc = "page"
        /\ lastSnapshots' = SnapshotsAfter(board, lastSnapshots)
        /\ AbsentAfter(board)
        /\ IF Len(allCourts) = 0 /\ ~Dispatches(FALSE, changedCourts)
           THEN /\ lastCourtData' = Some([scrapedAt |-> now, courts |-> allCourts])
                /\ EndTick(i, ticks[i].xhr, FALSE, FALSE, ticks[i].did, Some(now))
           ELSE /\ ticks' = [ticks EXCEPT ![i].pc = "upsertFind",
                                          ![i].allCourts = allCourts,
                                          ![i].changedCourts = changedCourts,
                                          ![i].scrapedAt = Some(now)]
                /\ UNCHANGED <<scraperLockUntil, backoffUntil, lastCourtData,
                               lastScrapeTime, last, lastErrorAt>>
        /\ UNCHANGED <<procVars, lastQueues, clockVars, scrapeCount, noteVars, lastETag,
                       lastCourtState>>
        /\ UNCHANGED storeVars

\* currentCourtService lines 17-24: CurrentCourt.find answers
UpsertFind(i) ==
    /\ ticks[i].pc = "upsertFind"
    /\ ticks' = [ticks EXCEPT ![i].pc = "upsertWrite",
                              ![i].existing = Some(currentCourts),
                              ![i].did = @ \cup {"upsert"}]
    /\ UNCHANGED <<procVars, lastQueues, clockVars, scraperLockUntil, backoffUntil, scrapeCount,
                   lastCourtData, lastScrapeTime, noteVars, last,
                   lastErrorAt>>
    /\ UNCHANGED <<cacheVars, storeVars, seenVars>>

\* the courts processCaseUpdates is called with (cronService lines 66-70)
DispatchedCourts(tick) == tick.changedCourts

\* currentCourtService lines 87-89: bulkWrite has applied the operations; then
\* cronService lines 59-70 and trackingService lines 86 and 204-237: the cache
\* of the API is set and, for a tick with changed courts, the loop of
\* processGlobalCaseHistory runs up to insertMany
UpsertWrite(i) ==
    LET tick == ticks[i]
        scrapedAt == Val(tick.scrapedAt)
        hist == HistoryLoop(DispatchedCourts(tick), 1, scrapedAt, lastCourtState, <<>>)
    IN  /\ tick.pc = "upsertWrite"
        /\ currentCourts' = ViewAfterUpsert(currentCourts, Val(tick.existing),
                                            tick.allCourts, scrapedAt)
        /\ lastCourtData' = Some([scrapedAt |-> scrapedAt, courts |-> tick.allCourts])
        /\ IF ~Dispatches(FALSE, tick.changedCourts)
           THEN /\ EndTick(i, tick.xhr, FALSE, FALSE, tick.did, tick.scrapedAt)
                /\ UNCHANGED lastCourtState
           ELSE /\ lastCourtState' = hist.state
                /\ ticks' = [ticks EXCEPT ![i].pc = "history",
                                          ![i].existing = Null,
                                          ![i].events = hist.events]
                /\ UNCHANGED <<scraperLockUntil, backoffUntil, lastScrapeTime, last,
                               lastErrorAt>>
        /\ UNCHANGED <<procVars, lastQueues, clockVars, scrapeCount, noteVars, lastETag,
                       lastSnapshots, caseHistory, caseStats, watchlists, devices,
                       notificationLog>>
        /\ UNCHANGED seenVars

(* ------------------------------ the dispatch --------------------------- *)

\* trackingService lines 236-239: insertMany answers (it is called only with
\* events to insert); a refused event makes it throw, and processCaseUpdates
\* and the tick with it
HistoryInsert(i) ==
    LET tick == ticks[i]
        res == InsertMany(caseHistory, tick.events, 1)
        did == IF Len(tick.events) = 0 THEN tick.did ELSE tick.did \cup {"history"}
    IN  /\ tick.pc = "history"
        /\ caseHistory' = res.history
        /\ IF res.threw
           THEN EndTick(i, tick.xhr, TRUE, FALSE, did, Null)
           ELSE /\ ticks' = [ticks EXCEPT ![i].pc = "stats", ![i].events = <<>>,
                                          ![i].did = did]
                /\ UNCHANGED <<scraperLockUntil, backoffUntil, lastScrapeTime, last,
                               lastErrorAt>>
        /\ UNCHANGED <<procVars, lastQueues, clockVars, scrapeCount, lastCourtData, noteVars, currentCourts,
                       caseStats, watchlists, devices, notificationLog>>
        /\ UNCHANGED <<cacheVars, seenVars>>

\* trackingService lines 87 and 244-272: the upserts of updateCaseStatistics
UpdateStats(i) ==
    LET tick == ticks[i]
        courts == DispatchedCourts(tick)
        any == \E k \in 1..Len(courts) : courts[k].caseNumber # "null"
    IN  /\ tick.pc = "stats"
        /\ caseStats' = StatsLoop(caseStats, courts, 1, now)
        /\ ticks' = [ticks EXCEPT ![i].pc = "watchFind",
                                  ![i].did = IF any THEN @ \cup {"stats"} ELSE @]
        /\ UNCHANGED <<procVars, lastQueues, clockVars, scraperLockUntil, backoffUntil, scrapeCount,
                       lastCourtData, lastScrapeTime, noteVars, last, lastErrorAt,
                       currentCourts, caseHistory, watchlists, devices,
                       notificationLog>>
        /\ UNCHANGED <<cacheVars, seenVars>>

\* the active watchlists, as Watchlist.find({ isActive: true }) loads them
ActiveWatchlists ==
    LET ids == SelectSeq([k \in 1..Len(watchlists) |-> k],
                         LAMBDA k : watchlists[k].isActive)
    IN  [k \in 1..Len(ids) |-> [id |-> ids[k], doc |-> watchlists[ids[k]]]]

\* cronService lines 72-87: broadcastCourtUpdate, and the tick ends
BroadcastAndEnd(i, did) ==
    /\ broadcasts' = Append(broadcasts, [tick |-> i,
                                         courts |-> Len(ticks[i].changedCourts),
                                         scrapedAt |-> ticks[i].scrapedAt])
    /\ EndTick(i, ticks[i].xhr, FALSE, FALSE, did \cup {"broadcast"},
               ticks[i].scrapedAt)

\* trackingService lines 89-95: the watchlists and the devices are loaded;
\* with no active watchlist processCaseUpdates returns
WatchFind(i) ==
    LET tick == ticks[i]
        loaded == ActiveWatchlists
    IN  /\ tick.pc = "watchFind"
        /\ IF Len(loaded) = 0
           THEN /\ BroadcastAndEnd(i, tick.did)
                /\ UNCHANGED <<pushes, lastWatch>>
           ELSE /\ ticks' = [ticks EXCEPT ![i].pc = "watch", ![i].loaded = loaded,
                                          ![i].idx = 1]
                /\ UNCHANGED <<scraperLockUntil, backoffUntil, lastScrapeTime, last,
                               lastErrorAt, noteVars>>
        /\ UNCHANGED <<procVars, lastQueues, clockVars, scrapeCount, lastCourtData>>
        /\ UNCHANGED <<cacheVars, storeVars, seenVars>>

\* trackingService lines 97-103 and 108-200: processWatchlist runs at time t
\* on the loaded watchlist w with `courts`; an error it throws is caught by
\* the loop.  The call is noted in lastWatch (call: the tick, or the number of
\* the call; onBoard, absentRun: what the board of the tick showed; details:
\* the position and the velocity handed to sendCaseAlert).
WatchEffects(call, w, courts, t, pushOk, onBoard, absentRun) ==
    \E res \in {processWatchlist(w.doc, courts, devices, t, notificationLog, pushOk)} :
    LET saved == res.save /\ ~SaveThrows(w.doc, res.doc)
        stored == IF saved THEN SavedDoc(watchlists[w.id], w.doc, res.doc)
                  ELSE watchlists[w.id]
    IN  /\ watchlists' = [watchlists EXCEPT ![w.id] = stored]
        /\ notificationLog' = res.log
        /\ pushes' = pushes \o [k \in 1..Len(res.pushes) |->
                                  [watch |-> w.id, type |-> res.pushes[k].type,
                                   at |-> t, success |-> res.pushes[k].success]]
        /\ lastWatch' =
              [ tick |-> call, watch |-> w.id,
                onBoard |-> onBoard, absentRun |-> absentRun,
                found |-> res.found, saved |-> saved,
                sent |-> IF Len(res.pushes) = 0 THEN "null" ELSE res.pushes[1].type,
                completed |-> /\ saved
                              /\ res.doc.lastSeenStatus = "COMPLETED"
                              /\ w.doc.lastSeenStatus # "COMPLETED",
                at |-> t, before |-> Some(w.doc), after |-> Some(stored),
                newState |-> res.newState, position |-> res.position,
                court |-> First(courts, LAMBDA c : c.caseNumber = w.doc.caseNumber),
                courts |-> courts,
                details |-> IF Len(res.pushes) = 0 THEN Null
                            ELSE Some([position |-> res.pushes[1].position,
                                       velocity |-> res.pushes[1].velocity]),
                threw |-> res.threw \/ (res.save /\ ~saved),
                changedAt |-> IF stored.lastSeenStatus # watchlists[w.id].lastSeenStatus
                              THEN Some(t) ELSE lastWatch.changedAt ]

RethrownAlways(threw) == threw
\* trackingService lines 98-102: the catch clause of the loop logs an error of
\* processWatchlist; none leaves the loop
Rethrown(threw) == FALSE

\* trackingService lines 97-103: one turn of the loop, processWatchlist on
\* the next loaded watchlist inside try/catch; after the last one
\* processCaseUpdates returns and the tick broadcasts and ends
ProcessWatch(i, pushOk) ==
    LET tick == ticks[i]
        w == tick.loaded[tick.idx]
        did == tick.did \cup {"watch"}
        board == Val(tick.board)
    IN  /\ tick.pc = "watch"
        /\ WatchEffects(i, w, DispatchedCourts(tick), now, pushOk,
                        \E c \in CodeSet :
                            CaseNumberOf(board[c].caseinfo) = w.doc.caseNumber,
                        caseAbsent[w.doc.caseNumber])
        /\ IF Rethrown(lastWatch'.threw)
           THEN /\ EndTick(i, tick.xhr, TRUE, FALSE, did, Null)
                /\ UNCHANGED broadcasts
           ELSE IF tick.idx = Len(tick.loaded)
           THEN BroadcastAndEnd(i, did)
           ELSE /\ ticks' = [ticks EXCEPT ![i].idx = @ + 1, ![i].did = did]
                /\ UNCHANGED <<scraperLockUntil, backoffUntil, lastScrapeTime, last,
                               lastErrorAt, broadcasts>>
        /\ UNCHANGED <<procVars, lastQueues, clockVars, scrapeCount, lastCourtData, currentCourts,
                       caseHistory, caseStats, devices>>
        /\ UNCHANGED <<cacheVars, seenVars>>

(* ------------------------ calls of one function ------------------------ *)

\* A watchlist run calls processWatchlist directly, as the loop of
\* processCaseUpdates does, on the stored watchlist of case A with a list of
\* courts and after a gap of time; a history run calls
\* processGlobalCaseHistory the same way.
\* calls a run makes at most: a run over the varied lists of courts, a long
\* run over two lists, a history run
WatchCalls == 3
LongCalls == 5
HistoryCalls == 3
\* the time between two calls: 30 s, 5 minutes and 5 s
WatchGaps == {6, 61}

\* courts in recess that share the court number "1": the queue of that court
Fillers == <<"F1", "F2", "F3", "F4", "F5", "F6", "F7", "F8", "F9", "F10", "F11">>
FillerCodes ==
    <<"f1", "f2", "f3", "f4", "f5", "f6", "f7", "f8", "f9", "f10", "f11">>
FillerCourt(n, t) ==
    CourtObj(FillerCodes[n], Row(Footer("recess", Fillers[n]), <<n>>, Card(1, "1")), t)
QueueAhead(k, t) == [n \in 1..k |-> FillerCourt(n, t)]
\* the court showing case A
WatchedCourt(kind, gsrno, courtNumber, t) ==
    CourtObj("c1", Row(Footer(kind, "A"), gsrno, Card(1, courtNumber)), t)

\* the lists of courts of a watchlist run: case A not shown; A in session; A
\* in recess behind k other cases of its court; A in recess with no serial
\* number; A in recess on a card without court number
WatchCourts(t) ==
    { <<CourtObj("c2", RowB, t)>>,
      <<WatchedCourt("case", <<1>>, "1", t)>>,
      <<WatchedCourt("recess", <<>>, "1", t)>>,
      <<WatchedCourt("recess", <<5>>, "", t)>> }
    \cup { QueueAhead(k, t) \o <<WatchedCourt("recess", <<20>>, "1", t)>> :
              k \in {0, 1, 2, 3, 9, 10, 11} }

\* the lists of a long run: case A not shown; A first of its queue
LongCourts(t) ==
    { <<CourtObj("c2", RowB, t)>>, <<WatchedCourt("recess", <<20>>, "1", t)>> }

\* the notification settings a device may have chosen
WatchSettings ==
    LET all == [earlyWarning |-> TRUE, approaching |-> TRUE, inSession |-> TRUE,
                completed |-> TRUE]
    IN  {all} \cup { [all EXCEPT ![k] = FALSE] : k \in DOMAIN all }

InitWatch ==
    /\ \E long \in BOOLEAN :
          /\ run = [ kind |-> "watch", long |-> long,
                     calls |-> IF long THEN LongCalls ELSE WatchCalls,
                     boards |-> {}, maxTicks |-> 0, maxTime |-> 0,
                     maxRuntime |-> 0, startHour |-> OPEN_HOUR, startOffset |-> 0 ]
          /\ \E s \in WatchSettings :
                /\ long => \A k \in DOMAIN s : s[k]
                /\ watchlists =
                      <<[NewWatch("A", "d1") EXCEPT !.notificationSettings = s]>>
    /\ InitCommon

\* trackingService lines 97-103 and 108-200: Watchlist.find has loaded the
\* stored watchlist and processWatchlist runs on it
CallProcessWatchlist(courts, gap, pushOk) ==
    LET t == now + gap
        w == ActiveWatchlists[1]
        onBoard == \E k \in 1..Len(courts) : courts[k].caseNumber = w.doc.caseNumber
        absentRun == IF onBoard THEN 0
                     ELSE Min(caseAbsent[w.doc.caseNumber] + 1, MISSING_THRESHOLD)
    IN  /\ run.kind = "watch"
        /\ lastWatch.tick < run.calls
        /\ now' = t
        /\ caseAbsent' = [caseAbsent EXCEPT ![w.doc.caseNumber] = absentRun]
        /\ WatchEffects(lastWatch.tick + 1, w, courts, t, pushOk, onBoard, absentRun)
        /\ UNCHANGED <<procVars, lastQueues, run, nextFire, scraperLockUntil, backoffUntil, scrapeCount,
                       lastCourtData, lastScrapeTime, ticks, cacheVars, currentCourts,
                       caseHistory, caseStats, devices, broadcasts, last,
                       lastErrorAt, courtAbsent>>

\* the lists of courts of the run
RunCourts(t) == IF run.long THEN LongCourts(t) ELSE WatchCourts(t)

NextWatch ==
    \E gap \in WatchGaps : \E pushOk \in BOOLEAN :
        \E courts \in RunCourts(now + gap) :
            CallProcessWatchlist(courts, gap, pushOk)

\* watchlist runs
SpecWatch == InitWatch /\ [][NextWatch]_vars

\* the boards of a history run: court c1 in recess with case A, its card as
\* before or changed; court c2 absent, idle or in recess with case B under
\* the court number of c1 (or without one, as c1), or in session or in recess
\* with case B as court "2"
HistoryRow(footer, gsrno, ver, courtNumber) == Row(footer, gsrno, Card(ver, courtNumber))
HistoryBoards ==
    UNION { { [c \in CodeSet |-> IF c = "c1" THEN r1 ELSE IF c = "c2" THEN r2 ELSE NoRow] :
                r1 \in { HistoryRow(Footer("recess", "A"), <<1>>, ver, n) : ver \in {1, 2} },
                r2 \in { NoRow,
                         HistoryRow(Footer("dash", ""), <<>>, 1, n),
                         HistoryRow(Footer("recess", "B"), <<2>>, 1, n),
                         HistoryRow(Footer("case", "B"), <<2>>, 1, "2"),
                         HistoryRow(Footer("recess", "B"), <<2>>, 1, "2") } } :
            n \in {"1", ""} }

InitHistory ==
    /\ run = [ kind |-> "history", long |-> FALSE, calls |-> HistoryCalls,
               boards |-> HistoryBoards, maxTicks |-> 0, maxTime |-> 0, maxRuntime |-> 0,
               startHour |-> OPEN_HOUR, startOffset |-> 0 ]
    /\ watchlists = <<>>
    /\ InitCommon

\* a tick of a history run: scraperService lines 84-227 give the changed
\* courts of the board, cronService lines 66-73 dispatch them when there are
\* any and keep them, and processCaseUpdates (trackingService line 91) calls
\* processGlobalCaseHistory on them
CallHistorian(board) ==
    LET t == now + SCRAPER_INTERVAL
        courts == ChangedCourtsOf(board, lastSnapshots, t)
        res == processGlobalCaseHistory(lastCourtState, caseHistory, courts, t)
    IN  /\ run.kind = "history"
        /\ last.id < run.calls
        /\ courts # <<>>
        /\ now' = t
        /\ lastSnapshots' = SnapshotsAfter(board, lastSnapshots)
        /\ lastCourtData' = Some([scrapedAt |-> t, courts |-> courts])
        /\ lastScrapeTime' = Some(t)
        /\ lastCourtState' = res.state
        /\ caseHistory' = res.history
        /\ last' = [id |-> last.id + 1, xhr |-> 0, skipped |-> FALSE,
                    threw |-> res.threw, did |-> {"history"}]
        /\ UNCHANGED <<procVars, lastQueues, run, nextFire, scraperLockUntil, backoffUntil, scrapeCount,
                       ticks, lastETag, currentCourts, caseStats,
                       watchlists, devices, notificationLog, noteVars,
                       lastErrorAt, seenVars>>

\* processGlobalCaseHistory once more on the courts and the scrapedAt of the
\* latest call
ReplayHistorian ==
    /\ run.kind = "history"
    /\ last.id < run.calls
    /\ ~IsNull(lastCourtData)
    /\ LET res == processGlobalCaseHistory(lastCourtState, caseHistory,
                                           Val(lastCourtData).courts,
                                           Val(lastCourtData).scrapedAt)
       IN  /\ lastCourtState' = res.state
           /\ caseHistory' = res.history
           /\ last' = [id |-> last.id + 1, xhr |-> 0, skipped |-> FALSE,
                       threw |-> res.threw, did |-> {"replay"}]
    /\ UNCHANGED <<procVars, lastQueues, clockVars, scraperLockUntil, backoffUntil, scrapeCount,
                   lastCourtData, lastScrapeTime, ticks, lastETag, lastSnapshots,
                   currentCourts, caseStats, watchlists, devices, notificationLog,
                   noteVars, lastErrorAt, seenVars>>

NextHistory ==
    \/ \E board \in run.boards : CallHistorian(board)
    \/ ReplayHistorian

\* history runs
SpecHistory == InitHistory /\ [][NextHistory]_vars

(* ------------------------------- shutdown ------------------------------ *)

\* a shutdown run: the process starts in court hours; nobody watches a case;
\* a signal arrives at some time
InitShutdown ==
    /\ run = [ kind |-> "shutdown", boards |-> SchedRunBoards,
               maxTicks |-> ShutdownTicks, maxTime |-> ShutdownTime,
               maxRuntime |-> 0, startHour |-> OPEN_HOUR, startOffset |-> 0 ]
    /\ watchlists = <<>>
    /\ InitCommon

\* the process has not exited
Running == IsNull(exited)

\* part_002 lines 145-164: SIGINT or SIGTERM arrives at time `at` (now, or
\* before the next timer when no tick is in flight) and shutdown runs: it
\* sets shutdownInitiated, asks the HTTP server to close and arms the forced
\* exit.  It does not touch the interval of startRealtimeScraper.
Shutdown(at) ==
    /\ run.kind = "shutdown"
    /\ ~shutdownInitiated
    /\ IsNull(exited)
    /\ at >= now
    /\ at <= (IF InFlight = {} THEN IdleUntil ELSE now)
    /\ now' = at
    /\ shutdownInitiated' = TRUE
    /\ shutdownAt' = Some(at)
    /\ UNCHANGED <<lastQueues, run, nextFire, scraperLockUntil, backoffUntil, scrapeCount,
                   lastCourtData, lastScrapeTime, ticks, noteVars, last,
                   lastErrorAt, exited>>
    /\ UNCHANGED <<cacheVars, storeVars, seenVars>>

\* part_002 lines 151-154: the HTTP server has closed (its connections have
\* ended) and its callback calls process.exit(0)
ServerClosed ==
    /\ shutdownInitiated
    /\ IsNull(exited)
    /\ exited' = Some([code |-> 0, at |-> now])
    /\ UNCHANGED <<lastQueues, clockVars, scraperLockUntil, backoffUntil, scrapeCount,
                   lastCourtData, lastScrapeTime, ticks, noteVars, last,
                   lastErrorAt, shutdownInitiated, shutdownAt>>
    /\ UNCHANGED <<cacheVars, storeVars, seenVars>>

\* part_002 lines 157-160: the timer of 10 s calls process.exit(1)
ForceExit ==
    /\ shutdownInitiated
    /\ IsNull(exited)
    /\ now = ForceExitAt
    /\ exited' = Some([code |-> 1, at |-> now])
    /\ UNCHANGED <<lastQueues, clockVars, scraperLockUntil, backoffUntil, scrapeCount,
                   lastCourtData, lastScrapeTime, ticks, noteVars, last,
                   lastErrorAt, shutdownInitiated, shutdownAt>>
    /\ UNCHANGED <<cacheVars, storeVars, seenVars>>

(* ---------------------------- specifications --------------------------- *)

Next ==
    \/ Advance
    \/ TickerFire
    \/ \E i \in DOMAIN ticks : XhrFail(i)
    \/ \E i \in DOMAIN ticks : \E board \in run.boards : XhrRespond(i, board)
    \/ \E i \in DOMAIN ticks : PageFail(i)
    \/ \E i \in DOMAIN ticks : PageOk(i)
    \/ \E i \in DOMAIN ticks : UpsertFind(i)
    \/ \E i \in DOMAIN ticks : UpsertWrite(i)
    \/ \E i \in DOMAIN ticks : HistoryInsert(i)
    \/ \E i \in DOMAIN ticks : UpdateStats(i)
    \/ \E i \in DOMAIN ticks : WatchFind(i)
    \/ \E i \in DOMAIN ticks : \E pushOk \in BOOLEAN : ProcessWatch(i, pushOk)

\* board runs
Spec == Init /\ [][Next]_vars

\* overlap runs
SpecOverlap == InitOverlap /\ [][Next]_vars

\* dispatch runs
SpecDispatch == InitDispatch /\ [][Next]_vars

\* shutdown runs: the process runs until it has exited
NextShutdown ==
    \/ Running /\ Advance
    \/ Running /\ TickerFire
    \/ Running /\ \E i \in DOMAIN ticks : XhrFail(i)
    \/ Running /\ \E i \in DOMAIN ticks : \E board \in run.boards : XhrRespond(i, board)
    \/ Running /\ \E i \in DOMAIN ticks : PageFail(i)
    \/ Running /\ \E i \in DOMAIN ticks : PageOk(i)
    \/ Running /\ \E i \in DOMAIN ticks : UpsertFind(i)
    \/ Running /\ \E i \in DOMAIN ticks : UpsertWrite(i)
    \/ Running /\ \E i \in DOMAIN ticks : HistoryInsert(i)
    \/ Running /\ \E i \in DOMAIN ticks : UpdateStats(i)
    \/ Running /\ \E i \in DOMAIN ticks : WatchFind(i)
    \/ \E at \in 0..ShutdownTime : Shutdown(at)
    \/ ServerClosed
    \/ ForceExit

SpecShutdown == InitShutdown /\ [][NextShutdown]_vars

\* scheduler runs: no watchlist is stored, so processWatchlist is never called
NextSched ==
    \/ Advance
    \/ TickerFire
    \/ \E i \in DOMAIN ticks : XhrFail(i)
    \/ \E i \in DOMAIN ticks : \E board \in run.boards : XhrRespond(i, board)
    \/ \E i \in DOMAIN ticks : PageFail(i)
    \/ \E i \in DOMAIN ticks : PageOk(i)
    \/ \E i \in DOMAIN ticks : UpsertFind(i)
    \/ \E i \in DOMAIN ticks : UpsertWrite(i)
    \/ \E i \in DOMAIN ticks : HistoryInsert(i)
    \/ \E i \in DOMAIN ticks : UpdateStats(i)
    \/ \E i \in DOMAIN ticks : WatchFind(i)

SpecSched == InitSched /\ [][NextSched]_vars

(* -------------------------------- claims ------------------------------- *)

\* C1: at no time are two executions of the tick in flight.
C1_NonOverlap == Cardinality(InFlight) <= 1

\* C2: any two push alerts sent for one watchlist (calls of sendCaseAlert,
\* of any alert type) are at least 5 minutes (60 units) apart.
C2_Cooldown ==
    \A j, k \in 1..Len(pushes) :
        (j < k /\ pushes[j].watch = pushes[k].watch)
            => pushes[k].at - pushes[j].at >= 60

\* C3: a watchlist is set to COMPLETED, and a completed alert is sent, only
\* when the watched case is not on the board of the tick and was not on the
\* board of the tick before.
C3_CompletedAfterAbsence ==
    (lastWatch.completed \/ lastWatch.sent = "completed")
        => (~lastWatch.onBoard /\ lastWatch.absentRun >= 2)

\* C4: a watchlist whose case is on the board of the tick that processes it
\* is handled as found.
C4_FoundWhenOnBoard == (lastWatch.tick # 0 /\ lastWatch.onBoard) => lastWatch.found

C6_MissingCountZeroIffSeen ==
    (InFlight = {} /\ last.id # 0 /\ last.xhr = 200 /\ ~last.threw)
        => \A c \in CodeSet :
              ~IsNull(currentCourts[c])
                  => ((Val(currentCourts[c]).missingCount = 0) <=> (courtAbsent[c] = 0))

C8_NotModifiedDoesNothing ==
    [][(last'.id # last.id /\ last'.xhr = 304)
          => /\ last'.skipped
             /\ last'.did = {}
             /\ UNCHANGED <<storeVars, cacheVars, noteVars, lastCourtData>>]_vars
C8_Witness == last.xhr = 304 /\ last.skipped /\ ~IsNull(lastCourtData)

\* C9: a tick whose XHR request is answered 304 ends without a thrown error
\* and leaves backoffUntil as it was.
C9_NotModifiedIsNoFailure ==
    [][(last'.id # last.id /\ last'.xhr = 304)
          => (~last'.threw /\ backoffUntil' = backoffUntil)]_vars

\* C10: when a tick throws at time t, backoffUntil becomes t + 120 s; no
\* tick starts at a fire before t + 120 s, and a fire at or after t + 120 s,
\* in court hours and not locked, starts a tick.
C10_BackoffSet ==
    ~IsNull(lastErrorAt) => backoffUntil = Val(lastErrorAt) + 24
C10_NoStartInBackoff ==
    \A i \in InFlight :
        ~IsNull(ticks[i].backoffSeen)
            => ticks[i].startedAt >= Val(ticks[i].backoffSeen) + 24
C10_FireStep ==
    (nextFire' # nextFire /\ ~IsNull(lastErrorAt))
        => IF now < Val(lastErrorAt) + 24
           THEN UNCHANGED <<scrapeCount, ticks, scraperLockUntil, backoffUntil>>
           ELSE (isCourtHours /\ ~isLocked)
                   => /\ scrapeCount' = scrapeCount + 1
                      /\ ticks'[scrapeCount'].pc = "xhr"
                      /\ ticks'[scrapeCount'].startedAt = now
C10_ErrorBackoff ==
    /\ [](C10_BackoffSet /\ C10_NoStartInBackoff)
    /\ [][C10_FireStep]_vars
C10_Witness ==
    \E i \in InFlight :
        /\ ~IsNull(ticks[i].backoffSeen)
        /\ ticks[i].startedAt >= Val(ticks[i].backoffSeen) + 24
        /\ now < Val(ticks[i].backoffSeen) + 24 + SCRAPER_INTERVAL

\* C11: a tick starts at a ticker fire only if, at that fire, the local hour
\* is in 10..17, now >= scraperLockUntil and now >= backoffUntil; a fire at
\* which one of the three fails changes no state and requests nothing.
C11_GuardsHold ==
    /\ getHours(now) \in 10..17
    /\ now >= scraperLockUntil
    /\ now >= backoffUntil
C12_StartAndEnd ==
    /\ (scrapeCount' # scrapeCount) => scraperLockUntil' = now + 5
    /\ (\E i \in InFlight : ticks'[i].pc = "done") => scraperLockUntil' = 0
C12_LockLifecycle ==
    /\ [](InFlight = {} => (scraperLockUntil = 0 /\ ~(now < scraperLockUntil)))
    /\ [][C12_StartAndEnd]_vars
C12_Witness ==
    /\ InFlight = {} /\ scrapeCount >= 2
    /\ last.threw /\ lastErrorAt = Some(now)
    /\ scraperLockUntil = 0

\* C15: for a found case, newState is IN_SESSION when caseStatus is
\* IN_SESSION, whatever the position; otherwise NEXT for position 1,
\* VERY_NEAR for 2..3, NEAR for 4..10, FAR for 11 and more; an alert that is
\* sent has the type in_session, approaching, approaching, early_warning,
\* early_warning respectively.
C15_Table ==
    LET c == Val(lastWatch.court)
        p == lastWatch.position
    IN  IF c.caseStatus = "IN_SESSION" THEN <<"IN_SESSION", "in_session">>
        ELSE IF p = <<1>> THEN <<"NEXT", "approaching">>
        ELSE IF Val(p) \in 2..3 THEN <<"VERY_NEAR", "approaching">>
        ELSE IF Val(p) \in 4..10 THEN <<"NEAR", "early_warning">>
        ELSE <<"FAR", "early_warning">>
C15_NewStateTable ==
    (/\ lastWatch.found
     /\ (Val(lastWatch.court).caseStatus = "IN_SESSION" \/ ~IsNull(lastWatch.position)))
        => /\ lastWatch.newState = C15_Table[1]
           /\ lastWatch.sent \in {"null", C15_Table[2]}
C15_Witness ==
    /\ lastWatch.found
    /\ lastWatch.position = <<11>> /\ lastWatch.newState = "FAR"
    /\ lastWatch.sent = "early_warning"
    /\ Val(lastWatch.before).lastSeenStatus = "NEXT"

\* C16: for a found case that is not IN_SESSION and has no position,
\* newState is empty: no alert is sent and lastSeenStatus stays as it was.
C16_NoPositionNoState ==
    (/\ lastWatch.found
     /\ Val(lastWatch.court).caseStatus # "IN_SESSION"
     /\ IsNull(lastWatch.position))
        => /\ lastWatch.newState = "null"
           /\ lastWatch.sent = "null"
           /\ Val(lastWatch.after).lastSeenStatus = Val(lastWatch.before).lastSeenStatus

\* C17: no alert of a type is sent to a watchlist whose setting for that
\* type (early_warning: earlyWarning, approaching: approaching, in_session:
\* inSession, completed: completed) is disabled.
C17_SettingOf(type) ==
    CASE type = "early_warning" -> "earlyWarning"
      [] type = "approaching" -> "approaching"
      [] type = "in_session" -> "inSession"
      [] type = "completed" -> "completed"
C17_SettingsGate ==
    lastWatch.sent # "null"
        => Val(lastWatch.before).notificationSettings[C17_SettingOf(lastWatch.sent)]
C17_Witness ==
    /\ lastWatch.found /\ lastWatch.newState = "NEAR"
    /\ ~Val(lastWatch.before).notificationSettings.earlyWarning
    /\ Val(lastWatch.before).lastSeenStatus = "NEXT"
    /\ lastWatch.at - Val(Val(lastWatch.before).lastNotificationTime) > 60
    /\ lastWatch.sent = "null"

\* C18: when an alert is sent for a watchlist with new state s (IN_SESSION,
\* NEXT, VERY_NEAR, NEAR, FAR or COMPLETED), the watchlist as stored at the
\* end of the call has lastSeenStatus = s and lastNotificationTime = the
\* time of the alert.
C18_StatePersisted ==
    lastWatch.sent # "null"
        => /\ Val(lastWatch.after).lastSeenStatus =
                 (IF lastWatch.found THEN lastWatch.newState ELSE "COMPLETED")
           /\ Val(lastWatch.after).lastNotificationTime = <<lastWatch.at>>

\* C19: when the state derived for a found case differs from lastSeenStatus
\* and the cooldown has not passed, nothing is sent, lastSeenStatus and
\* lastNotificationTime stay as they were, and lastSeenPosition and
\* lastSeenCourt are stored as the position and court of the call.
C19_Suppressed ==
    /\ lastWatch.found
    /\ lastWatch.newState # "null"
    /\ lastWatch.newState # Val(lastWatch.before).lastSeenStatus
    /\ ~IsNull(Val(lastWatch.before).lastNotificationTime)
    /\ lastWatch.at - Val(Val(lastWatch.before).lastNotificationTime) < 60
C19_CooldownFrame ==
    C19_Suppressed
        => /\ lastWatch.sent = "null"
           /\ lastWatch.saved
           /\ Val(lastWatch.after).lastSeenStatus = Val(lastWatch.before).lastSeenStatus
           /\ Val(lastWatch.after).lastNotificationTime =
                 Val(lastWatch.before).lastNotificationTime
           /\ Val(lastWatch.after).lastSeenPosition = lastWatch.position
           /\ Val(lastWatch.after).lastSeenCourt = Val(lastWatch.court).courtNumber
C19_Witness ==
    /\ C19_Suppressed
    /\ Val(lastWatch.before).lastSeenStatus = "NEAR"
    /\ lastWatch.newState = "VERY_NEAR"
    /\ Val(lastWatch.before).lastSeenPosition = <<4>>
    /\ Val(lastWatch.after).lastSeenPosition = <<3>>

\* C20: a call that does not find the case, on a stored missCount of 0,
\* stores missCount 1 and sends nothing; the next one, with lastSeenStatus
\* other than COMPLETED, the completed setting on and the cooldown passed,
\* stores missCount 2, sends one completed alert and stores lastSeenStatus
\* COMPLETED; calls on a COMPLETED watchlist send no completed alert.
C20_CompletionByAbsence ==
    LET b == Val(lastWatch.before)
        a == Val(lastWatch.after)
        due == /\ b.lastSeenStatus # "COMPLETED"
               /\ b.notificationSettings.completed
               /\ (IsNull(b.lastNotificationTime)
                     \/ lastWatch.at - Val(b.lastNotificationTime) > 60)
    IN  (lastWatch.tick # 0 /\ ~lastWatch.found)
            => /\ b.missCount = 0 => (a.missCount = 1 /\ lastWatch.sent = "null")
               /\ (b.missCount = 1 /\ due)
                     => /\ a.missCount = 2
                        /\ lastWatch.sent = "completed"
                        /\ a.lastSeenStatus = "COMPLETED"
               /\ b.lastSeenStatus = "COMPLETED" => lastWatch.sent = "null"

\* C14: history recording is idempotent: when the Historian runs a second
\* time on the courts and the scrapedAt of the call before, the CaseHistory
\* collection gets no new row.
C14_ReplayAddsNothing ==
    [][(last'.id # last.id /\ last'.did = {"replay"}) =>
          caseHistory' = caseHistory]_vars

\* C13: for every watchlist, the stored lastSeenStatus changes at most once
\* within any 5 minutes: a step that changes it comes at least 5 minutes after
\* the change before.
C13_OncePerCooldown ==
    [][\A i \in DOMAIN watchlists :
          watchlists'[i].lastSeenStatus # watchlists[i].lastSeenStatus =>
             \/ IsNull(lastWatch.changedAt)
             \/ now' - Val(lastWatch.changedAt) >= COOLDOWN_MS]_vars

\* C21: an error thrown while one watchlist is processed is swallowed: the
\* loop goes on to the next loaded watchlist, or, after the last one, the tick
\* broadcasts and ends without error; the backoff is not set.  Every turn of
\* the loop processes the loaded watchlist it stands at.
C21_Turn(i) ==
    /\ ticks[i].pc = "watch"
    /\ ticks'[i] # ticks[i]
C21_FailureIsolated ==
    [][\A i \in DOMAIN ticks : C21_Turn(i) =>
          /\ lastWatch'.tick = i
          /\ lastWatch'.watch = ticks[i].loaded[ticks[i].idx].id
          /\ backoffUntil' = backoffUntil
          /\ lastErrorAt' = lastErrorAt
          /\ IF ticks[i].idx < Len(ticks[i].loaded)
             THEN ticks'[i].pc = "watch" /\ ticks'[i].idx = ticks[i].idx + 1
             ELSE /\ ticks'[i].pc = "done"
                  /\ last'.id = i /\ ~last'.threw
                  /\ "broadcast" \in last'.did]_vars
\* a tick has ended without error after the watchlist of case A threw (the
\* in_session alert was sent, the status is not stored) and that of case B was
\* processed and saved
C21_Witness ==
    /\ last.id > 0 /\ ~last.threw /\ "broadcast" \in last.did
    /\ lastWatch.tick = last.id /\ lastWatch.watch = 2
    /\ lastWatch.found /\ lastWatch.saved
    /\ \E k \in DOMAIN pushes :
          /\ pushes[k].watch = 1 /\ pushes[k].type = "in_session"
          /\ pushes[k].at = lastWatch.at
    /\ watchlists[1].lastSeenStatus # "IN_SESSION"
    /\ backoffUntil = 0

\* C22: when the push of an alert fails (sendNotification answers success =
\* false), the call of processWatchlist leaves lastSeenStatus and
\* lastNotificationTime of the watchlist as they were stored.
C22_FailedPushKeepsState ==
    ( /\ lastWatch.tick > 0
      /\ lastWatch.sent # "null"
      /\ Len(pushes) > 0
      /\ pushes[Len(pushes)].at = lastWatch.at
      /\ ~pushes[Len(pushes)].success )
    => /\ Val(lastWatch.after).lastSeenStatus = Val(lastWatch.before).lastSeenStatus
       /\ Val(lastWatch.after).lastNotificationTime =
             Val(lastWatch.before).lastNotificationTime

\* C24: every push sent adds an entry to the NotificationLog collection, the
\* second and later sends of one alert type to one device, case and court
\* included.
C24_EverySendLogged ==
    [][Len(pushes') > Len(pushes) =>
          Cardinality(notificationLog') =
             Cardinality(notificationLog) + (Len(pushes') - Len(pushes))]_vars

\* C23: when the unique index of CaseHistory refuses an event of the bulk
\* insert of a tick, the other events are stored, the tick goes on to the
\* statistics (and from there to the watchlists and the broadcast), and the
\* backoff is not set.
C23_DuplicateIgnored ==
    [][\A i \in DOMAIN ticks :
          ( /\ ticks[i].pc = "history"
            /\ ticks'[i] # ticks[i]
            /\ Cardinality(caseHistory') <
                  Cardinality(caseHistory) + Len(ticks[i].events) )
          => /\ \A k \in DOMAIN ticks[i].events :
                   \E x \in caseHistory' : HistoryKey(x) = HistoryKey(ticks[i].events[k])
             /\ ticks'[i].pc = "stats"
             /\ backoffUntil' = backoffUntil]_vars

\* C25: broadcastCourtUpdate is called in a tick only if the tick produced
\* changed courts: a step that broadcasts is the step of a tick with a
\* non-empty changedCourts, and a tick that ends skipped, in error or without
\* changed courts has not broadcast.
C25_BroadcastOnlyOnChange ==
    [][/\ broadcasts' # broadcasts =>
            \E i \in DOMAIN ticks :
               /\ ticks[i].pc \in {"watchFind", "watch"}
               /\ Len(ticks[i].changedCourts) > 0
               /\ broadcasts' = Append(broadcasts,
                                       [tick |-> i, courts |-> Len(ticks[i].changedCourts),
                                        scrapedAt |-> ticks[i].scrapedAt])
       /\ \A i \in DOMAIN ticks :
            ( /\ ticks[i].pc \notin {"idle", "done"}
              /\ ticks'[i].pc = "done"
              /\ \/ last'.skipped
                 \/ last'.threw
                 \/ Len(ticks[i].changedCourts) = 0 )
            => broadcasts' = broadcasts]_vars
\* ticks have ended skipped (304), in error, without a changed court, and one
\* with changed courts has broadcast them
C25_Witness ==
    /\ Len(broadcasts) = 1
    /\ broadcasts[1].courts > 0
    /\ last.id > broadcasts[1].tick
    /\ last.skipped
    /\ "broadcast" \notin last.did

\* C26: once shutdown has been initiated no tick starts, and the process has
\* exited 10 s after the signal at the latest.
C26_NoTickAfterShutdown ==
    [][/\ shutdownInitiated => scrapeCount' = scrapeCount
       /\ (shutdownInitiated' /\ IsNull(exited')) =>
             now' <= Val(shutdownAt') + SHUTDOWN_TIMEOUT]_vars

\* C27: the Historian emits an event for a court with a case number exactly
\* when lastCourtState has no entry of its court number or the entry differs
\* in caseNumber, status or queuePosition, and then the entry becomes the
\* triple of the court; otherwise map and events stay.  For the courts of one
\* call: the entry a court meets is the triple of the latest court before it
\* with its court number and a case number, else the entry of the map.
C27_Triple(court) ==
    [caseNumber |-> court.caseNumber, status |-> court.caseStatus,
     queuePosition |-> court.queuePosition]
C27_Before(courts, k) ==
    {j \in 1..(k - 1) : /\ courts[j].courtNumber = courts[k].courtNumber
                        /\ courts[j].caseNumber # "null"}
C27_Meets(state, courts, k) ==
    LET before == C27_Before(courts, k)
    IN  IF before # {}
        THEN Some(C27_Triple(courts[CHOOSE j \in before : \A x \in before : x <= j]))
        ELSE IF courts[k].courtNumber \in DOMAIN state
        THEN Some(state[courts[k].courtNumber])
        ELSE Null
C27_Emitting(state, courts) ==
    SelectSeq([k \in 1..Len(courts) |-> k],
              LAMBDA k : /\ courts[k].caseNumber # "null"
                         /\ C27_Meets(state, courts, k) # Some(C27_Triple(courts[k])))
C27_EmitRule ==
    [][(last'.id # last.id /\ last'.did = {"history"}) =>
          LET courts == Val(lastCourtData').courts
              t == Val(lastCourtData').scrapedAt
              hits == C27_Emitting(lastCourtState, courts)
              res == processGlobalCaseHistory(lastCourtState, caseHistory, courts, t)
              keys == {courts[k].courtNumber : k \in {j \in 1..Len(courts) :
                                                        courts[j].caseNumber # "null"}}
          IN  /\ res.events = [n \in 1..Len(hits) |->
                                  buildHistoryEvent(courts[hits[n]], t)]
              /\ DOMAIN lastCourtState' = DOMAIN lastCourtState \cup keys
              /\ \A key \in DOMAIN lastCourtState' :
                    IF key \in keys
                    THEN \E k \in 1..Len(courts) :
                            /\ courts[k].courtNumber = key
                            /\ courts[k].caseNumber # "null"
                            /\ \A j \in (k + 1)..Len(courts) :
                                  courts[j].courtNumber # key \/ courts[j].caseNumber = "null"
                            /\ lastCourtState'[key] = C27_Triple(courts[k])
                    ELSE lastCourtState'[key] = lastCourtState[key]
              /\ \A x \in caseHistory' \ caseHistory :
                    \E n \in 1..Len(hits) : x = buildHistoryEvent(courts[hits[n]], t)
              /\ hits = <<>> => caseHistory' = caseHistory]_vars
\* the Historian has run on courts of which one, court "2" with case B, got an
\* event because only its status differed from the entry, and another, with a
\* case number, got none because its entry was the same
C27_Witness ==
    /\ last.did = {"history"}
    /\ \E x, y \in caseHistory :
          /\ x.courtNumber = "2" /\ y.courtNumber = "2"
          /\ x.caseNumber = y.caseNumber /\ x.position = y.position
          /\ x.status # y.status
          /\ x.scrapedAt < y.scrapedAt /\ y.scrapedAt = now
    /\ \E k \in DOMAIN Val(lastCourtData).courts :
          LET c == Val(lastCourtData).courts[k]
          IN  /\ c.caseNumber # "null"
              /\ \A x \in caseHistory :
                    x.scrapedAt = now => x.caseNumber # c.caseNumber

\* C28: a parsed court is in changedCourts exactly when it has no previous
\* signature (hash of the card, raw footer, srNo) or its signature differs
\* from the previous one; here: every court of the changedCourts of a tick
\* had no signature before the tick or has another one after it.
C28_ChangedOnlyIfDiffers ==
    [][(last'.id # last.id /\ last'.did = {"history"}) =>
          \A k \in DOMAIN Val(lastCourtData').courts :
             LET c == Val(lastCourtData').courts[k].id
             IN  \/ IsNull(lastSnapshots[c])
                 \/ lastSnapshots'[c] # lastSnapshots[c]]_vars

\* C29: in every tick that is executed and not skipped, each court of the
\* durable view that the board of the tick does not show gets missingCount
\* one higher and isVisible = (missingCount < 3), whatever the number of
\* courts parsed.
C29_UpsertDone(i) ==
    \/ /\ ticks[i].pc = "page"
       /\ ticks'[i].pc = "done"
       /\ last'.id = i /\ ~last'.threw
    \/ /\ ticks[i].pc = "upsertWrite"
       /\ ticks'[i].pc # "upsertWrite"
C29_MissingCounted ==
    [][\A i \in DOMAIN ticks : C29_UpsertDone(i) =>
          \A c \in CodeSet :
             (~IsNull(currentCourts[c]) /\ Val(ticks[i].board)[c] = NoRow) =>
                /\ ~IsNull(currentCourts'[c])
                /\ Val(currentCourts'[c]).missingCount =
                      Val(currentCourts[c]).missingCount + 1
                /\ Val(currentCourts'[c]).isVisible =
                      (Val(currentCourts[c]).missingCount + 1 < MISSING_THRESHOLD)]_vars

\* C30: a tick that observes a court with the field values the durable view
\* has stored for it, the observation time aside, only refreshes checkedAt:
\* data, dataHash and changedAt of the entry stay.
C30_SameFields(a, b) == [a EXCEPT !.scrapedAt = 0] = [b EXCEPT !.scrapedAt = 0]
C30_ChangedAtOnChange ==
    [][\A i \in DOMAIN ticks :
          (ticks[i].pc = "upsertWrite" /\ ticks'[i].pc # "upsertWrite") =>
             \A k \in DOMAIN ticks[i].allCourts :
                LET court == ticks[i].allCourts[k]
                    old == currentCourts[court.id]
                    new == currentCourts'[court.id]
                IN  (~IsNull(old) /\ C30_SameFields(Val(old).data, court)) =>
                       /\ Val(new).changedAt = Val(old).changedAt
                       /\ Val(new).data = Val(old).data
                       /\ Val(new).dataHash = Val(old).dataHash
                       /\ Val(new).checkedAt = Val(ticks[i].scrapedAt)]_vars

(* ------------------------------ queue runs ----------------------------- *)

\* the serial numbers shown in a queue run: 1..QueuePositions, or none
QueuePositions == 2

\* the rows a board of a queue run may show for a court
QueueRows(courtNumbers) ==
    { Row(Footer(kind, "A"), gsrno, Card(1, n)) :
        kind \in {"case", "recess", "over", "dash"},
        gsrno \in {<<>>} \cup { <<q>> : q \in 1..QueuePositions },
        n \in courtNumbers }

\* the lists of courts handed to buildCourtQueues
QueueCourts ==
    { <<CourtObj("c1", r1, 0), CourtObj("c2", r2, 0), CourtObj("c3", r3, 0)>> :
        r1 \in QueueRows({"", "1"}), r2 \in QueueRows({"1", "2"}),
        r3 \in QueueRows({"1"}) }

InitQueues ==
    /\ run = [ kind |-> "queues", boards |-> {}, maxTicks |-> 0, maxTime |-> 0,
               maxRuntime |-> 0, startHour |-> OPEN_HOUR, startOffset |-> 0 ]
    /\ watchlists = <<>>
    /\ InitCommon

\* trackingService line 95: const courtQueues = buildCourtQueues(courts), once
\* in a run
CallBuildCourtQueues(courts) ==
    /\ run.kind = "queues"
    /\ lastQueues.courts = <<>>
    /\ lastQueues' = [courts |-> courts, courtQueues |-> buildCourtQueues(courts)]
    /\ UNCHANGED <<procVars, clockVars, scraperLockUntil, backoffUntil, scrapeCount,
                   lastCourtData, lastScrapeTime, ticks, noteVars, last,
                   lastErrorAt>>
    /\ UNCHANGED <<cacheVars, storeVars, seenVars>>

NextQueues == \E courts \in QueueCourts : CallBuildCourtQueues(courts)

\* queue runs
SpecQueues == InitQueues /\ [][NextQueues]_vars

\* C32: buildCourtQueues gives every court number of the list a queue and no
\* queue to the empty court number; the pending list of a number holds exactly
\* the courts of that number that have a queuePosition and a caseStatus other
\* than IN_SESSION and SITTING_OVER, each once, in ascending queuePosition; and
\* currentCase is the first court of that number in session, or null.
C32_Eligible(c, n) ==
    /\ c.courtNumber = n
    /\ ~IsNull(c.queuePosition)
    /\ c.caseStatus \notin {"IN_SESSION", "SITTING_OVER"}
C32_QueuesAsSpecified ==
    LET courts == lastQueues.courts
        queues == lastQueues.courtQueues
        idx == 1..Len(courts)
    IN  /\ DOMAIN queues = {courts[k].courtNumber : k \in idx} \ {""}
        /\ \A n \in DOMAIN queues :
              LET pending == queues[n].pending
                  current == queues[n].currentCase
                  sitting == {k \in idx : courts[k].courtNumber = n
                                          /\ courts[k].caseStatus = "IN_SESSION"}
              IN  /\ {pending[a] : a \in 1..Len(pending)}
                       = {courts[k] : k \in {j \in idx : C32_Eligible(courts[j], n)}}
                  /\ \A a, b \in 1..Len(pending) : a # b => pending[a] # pending[b]
                  /\ \A a, b \in 1..Len(pending) :
                        a < b => Val(pending[a].queuePosition)
                                    <= Val(pending[b].queuePosition)
                  /\ IF sitting = {} THEN IsNull(current)
                     ELSE \E k \in sitting : /\ current = Some(courts[k])
                                              /\ \A j \in sitting : k <= j
\* a list whose two courts of number 1 stand in descending serial order behind
\* a court that has a serial number and no court number
C32_Witness ==
    /\ Len(lastQueues.courts) = 3
    /\ lastQueues.courts[1].courtNumber = ""
    /\ ~IsNull(lastQueues.courts[1].queuePosition)
    /\ lastQueues.courts[2].courtNumber = "1"
    /\ lastQueues.courts[2].caseStatus = "RECESS"
    /\ lastQueues.courts[2].queuePosition = Some(2)
    /\ lastQueues.courts[3].caseStatus = "null"
    /\ lastQueues.courts[3].queuePosition = Some(1)
    /\ Len(lastQueues.courtQueues["1"].pending) = 2

\* C33: when processWatchlist finds the case, the position it uses is the
\* 1-based rank of the case in the pending queue of its court (null when the
\* case is not pending); the state follows from that rank; and an alert for the
\* found case carries that position and the velocity lastSeenPosition minus
\* position, 0 when one of the two is missing.
C33_Pending(c, n) ==
    /\ n # "" /\ c.courtNumber = n
    /\ ~IsNull(c.queuePosition)
    /\ c.caseStatus \notin {"IN_SESSION", "SITTING_OVER"}
C33_Rank(courts, caseNumber) ==
    LET idx == 1..Len(courts)
        at == CHOOSE k \in idx : /\ courts[k].caseNumber = caseNumber
                                 /\ \A j \in idx : courts[j].caseNumber = caseNumber
                                                       => k <= j
        n == courts[at].courtNumber
        ahead == {k \in idx :
                    /\ C33_Pending(courts[k], n)
                    /\ \/ Val(courts[k].queuePosition) < Val(courts[at].queuePosition)
                       \/ /\ courts[k].queuePosition = courts[at].queuePosition
                          /\ k < at}
    IN  IF C33_Pending(courts[at], n) THEN Some(Cardinality(ahead) + 1) ELSE Null
C33_PositionIsRank ==
    lastWatch.found =>
        LET rank == C33_Rank(lastWatch.courts, Val(lastWatch.before).caseNumber)
            seen == Val(lastWatch.before).lastSeenPosition
        IN  /\ lastWatch.position = rank
            /\ (~IsNull(rank) /\ Val(lastWatch.court).caseStatus # "IN_SESSION") =>
                  lastWatch.newState =
                     IF Val(rank) = 1 THEN "NEXT"
                     ELSE IF Val(rank) <= 3 THEN "VERY_NEAR"
                     ELSE IF Val(rank) <= 10 THEN "NEAR" ELSE "FAR"
            /\ ~IsNull(lastWatch.details) =>
                  /\ Val(lastWatch.details).position = rank
                  /\ Val(lastWatch.details).velocity =
                        Some(IF IsNull(seen) \/ IsNull(rank) THEN 0
                             ELSE Val(seen) - Val(rank))
\* the case was last seen far away at position 12 and is now second of its
\* queue: an approaching alert with position 2 and velocity 10
C33_Witness ==
    /\ lastWatch.found
    /\ Val(lastWatch.before).lastSeenStatus = "FAR"
    /\ Val(lastWatch.before).lastSeenPosition = Some(12)
    /\ Val(lastWatch.court).queuePosition = Some(20)
    /\ lastWatch.newState = "VERY_NEAR"
    /\ lastWatch.sent = "approaching"
    /\ lastWatch.details = Some([position |-> Some(2), velocity |-> Some(10)])

(* ---------------------------- statistics runs --------------------------- *)

\* calls of updateCaseStatistics a statistics run makes at most
StatsCalls == 103

\* the lists of courts of a statistics run, handed over in turn: case A in
\* recess; A in recess and in session by turns; A on two courts at once; A and
\* B in recess and a court without case by turns
StatsLists ==
    LET recess(code, num, n) ==
            CourtObj(code, Row(Footer("recess", num), <<1>>, Card(1, n)), 0)
        session == CourtObj("c1", RowA, 0)
        dash == CourtObj("c1", RowDash, 0)
    IN  { << <<recess("c1", "A", "1")>> >>,
          << <<recess("c1", "A", "1")>>, <<session>> >>,
          << <<recess("c1", "A", "1"), recess("c2", "A", "2")>> >>,
          << <<recess("c1", "A", "1"), recess("c2", "B", "2")>>, <<dash>> >> }

InitStats ==
    /\ \E lists \in StatsLists :
          run = [ kind |-> "stats", lists |-> lists, boards |-> {}, maxTicks |-> 0,
                  maxTime |-> StatsCalls * SCRAPER_INTERVAL, maxRuntime |-> 0,
                  startHour |-> OPEN_HOUR, startOffset |-> 0 ]
    /\ watchlists = <<>>
    /\ InitCommon

\* the list of the n-th call
StatsCourts(n) == run.lists[((n - 1) % Len(run.lists)) + 1]

\* trackingService lines 87 and 244-272: the next call of
\* updateCaseStatistics, one scraper interval after the one before
CallUpdateCaseStatistics ==
    /\ run.kind = "stats"
    /\ now < run.maxTime
    /\ now' = now + SCRAPER_INTERVAL
    /\ caseStats' = StatsLoop(caseStats, StatsCourts(now' \div SCRAPER_INTERVAL), 1, now')
    /\ UNCHANGED <<procVars, lastQueues, run, nextFire, scraperLockUntil,
                   backoffUntil, scrapeCount, lastCourtData, lastScrapeTime, ticks,
                   noteVars, last, lastErrorAt, currentCourts, caseHistory,
                   watchlists, devices, notificationLog>>
    /\ UNCHANGED <<cacheVars, seenVars>>

NextStats == CallUpdateCaseStatistics

\* statistics runs
SpecStats == InitStats /\ [][NextStats]_vars

\* C34: after every sequence of statistics updates each CaseStatistics entry
\* holds at most 100 statusHistory elements: the latest ones of all that were
\* appended for its case, in the order of their appending.
C34_Shown(n, caseNumber) ==
    SelectSeq(StatsCourts(n), LAMBDA c : c.caseNumber = caseNumber)
\* the number of elements appended for the case by the calls 1..n
RECURSIVE C34_InTurn(_, _)
C34_InTurn(i, caseNumber) ==
    IF i = 0 THEN 0 ELSE C34_InTurn(i - 1, caseNumber) + Len(C34_Shown(i, caseNumber))
C34_Count(n, caseNumber) ==
    (n \div Len(run.lists)) * C34_InTurn(Len(run.lists), caseNumber)
        + C34_InTurn(n % Len(run.lists), caseNumber)
\* the m-th element appended for the case
C34_Appended(m, caseNumber) ==
    LET n == CHOOSE n \in 1..StatsCalls :
                 C34_Count(n - 1, caseNumber) < m /\ m <= C34_Count(n, caseNumber)
        c == C34_Shown(n, caseNumber)[m - C34_Count(n - 1, caseNumber)]
    IN  [status |-> c.caseStatus, timestamp |-> n * SCRAPER_INTERVAL,
         courtNumber |-> c.courtNumber, queuePosition |-> c.queuePosition]
C34_TailOfHundred ==
    run.kind = "stats" =>
        \A caseNumber \in Cases :
            LET all == C34_Count(now \div SCRAPER_INTERVAL, caseNumber)
                kept == IF caseNumber \in DOMAIN caseStats
                        THEN caseStats[caseNumber].statusHistory ELSE <<>>
                drop == IF all > 100 THEN all - 100 ELSE 0
            IN  /\ Len(kept) <= 100
                /\ Len(kept) = all - drop
                /\ \A k \in 1..Len(kept) :
                      kept[k] = C34_Appended(drop + k, caseNumber)
\* case A was appended more than 100 times, in recess and in session by
\* turns, and the first elements are gone
C34_Witness ==
    /\ run.kind = "stats"
    /\ "A" \in DOMAIN caseStats
    /\ caseStats["A"].totalAppearances > 101
    /\ Len(caseStats["A"].statusHistory) = 100
    /\ caseStats["A"].statusHistory[1].timestamp > SCRAPER_INTERVAL
    /\ caseStats["A"].statusHistory[1].status # caseStats["A"].statusHistory[2].status

\* C35: a tick is answered 304 only for a board whose content was processed:
\* when the tick that ended last was short-circuited by a 304, every court of
\* the board the stored ETag stands for has been parsed into the snapshots.
C35_NoSkipOfUnprocessed ==
    (last.id # 0 /\ NotModified(last.xhr) /\ InFlight = {}) =>
        \A c \in CodeSet :
            Val(lastETag)[c] # NoRow =>
                lastSnapshots[c] = Some(SnapshotOf(Val(lastETag)[c]))

\* C36: the snapshot of a court is advanced only for a change that was
\* dispatched: once no tick is in flight, a court whose snapshot shows a case
\* has passed the dispatch of its tick, so the statistics of that case hold an
\* element with the status of the snapshot.
C36_SnapshotOnlyIfDispatched ==
    InFlight = {} =>
        \A c \in CodeSet :
            (~IsNull(lastSnapshots[c])
               /\ CaseNumberOf(Val(lastSnapshots[c]).caseNumber) # "null") =>
                LET snap == Val(lastSnapshots[c])
                    caseNumber == CaseNumberOf(snap.caseNumber)
                IN  /\ caseNumber \in DOMAIN caseStats
                    /\ \E k \in 1..Len(caseStats[caseNumber].statusHistory) :
                          caseStats[caseNumber].statusHistory[k].status = snap.caseStatus

\* C37: the end of a tick releases only the lock that tick took: while the
\* tick started last is in flight, scraperLockUntil is the lease it set at its
\* start.
C37_OwnLockOnly ==
    (scrapeCount > 0 /\ scrapeCount \in InFlight) =>
        scraperLockUntil = LockAfter(ticks[scrapeCount].startedAt)

\* C38: lastSeenStatus and lastNotificationTime are written only by a call
\* of processWatchlist that sends an alert: after a call that sent none the
\* stored watchlist holds the values it had before.
C38_StatusOnlyWithAlert ==
    (lastWatch.tick > 0 /\ lastWatch.sent = "null") =>
        /\ Val(lastWatch.after).lastSeenStatus = Val(lastWatch.before).lastSeenStatus
        /\ Val(lastWatch.after).lastNotificationTime
              = Val(lastWatch.before).lastNotificationTime
\* the case moved to another state within the cooldown of the alert before:
\* no alert, the new position is saved, the status is kept
C38_Witness ==
    /\ lastWatch.found /\ lastWatch.saved
    /\ lastWatch.sent = "null"
    /\ lastWatch.newState \notin {"null", Val(lastWatch.before).lastSeenStatus}
    /\ Val(lastWatch.before).notificationSettings[
           ALERT_TO_SETTING(STATE_TO_ALERT(lastWatch.newState))]
    /\ ~cooldownPassed(Val(lastWatch.before).lastNotificationTime, lastWatch.at)
    /\ Val(lastWatch.after).lastSeenPosition # Val(lastWatch.before).lastSeenPosition

\* C39: a call of the historian emits no event for a court whose court number,
\* case number, status and queue position are those of its own observation
\* before (the snapshot of its court code), whatever other courts show its
\* court number.
C39_SameAsBefore(court, snaps) ==
    /\ ~IsNull(snaps[court.id])
    /\ Val(snaps[court.id]).hash.courtNumber = court.courtNumber
    /\ CaseNumberOf(Val(snaps[court.id]).caseNumber) = court.caseNumber
    /\ Val(snaps[court.id]).caseStatus = court.caseStatus
    /\ Val(snaps[court.id]).srNo = court.srNo
C39_NoEventWithoutOwnChange ==
    [][(last'.id # last.id /\ last'.did = {"history"}) =>
          \A k \in 1..Len(Val(lastCourtData').courts) :
              LET court == Val(lastCourtData').courts[k]
              IN  C39_SameAsBefore(court, lastSnapshots) =>
                     buildHistoryEvent(court, now') \notin caseHistory' \ caseHistory]_vars

\* C40: a call of processWatchlist for a watchlist whose device is not active
\* or has no push token sends no alert and saves nothing: the stored watchlist
\* is the loaded one, field by field, and no push and no log entry exists.
C40_DeviceUsable == devices["d1"].isActive /\ ~IsNull(devices["d1"].fcmToken)
C40_UntouchedWithoutDevice ==
    (run.kind = "watch" /\ lastWatch.tick > 0 /\ ~C40_DeviceUsable) =>
        /\ lastWatch.sent = "null" /\ ~lastWatch.saved
        /\ lastWatch.after = lastWatch.before
        /\ watchlists[lastWatch.watch] = Val(lastWatch.before)
        /\ \A f \in {"missCount", "lastSeenStatus", "lastSeenPosition",
                      "lastSeenCourt", "lastNotificationTime"} :
              watchlists[lastWatch.watch][f] = NewWatch("A", "d1")[f]
        /\ pushes = <<>> /\ notificationLog = {}
\* the device has lost its push token; the case was missing from two lists
\* and is now first of its queue
C40_Witness ==
    /\ run.kind = "watch"
    /\ IsNull(devices["d1"].fcmToken)
    /\ lastWatch.tick = 3
    /\ lastWatch.onBoard
    /\ ~IsNull(lastWatch.court)
    /\ Val(lastWatch.court).caseStatus = "RECESS"
    /\ Len(lastWatch.courts) = 1
    /\ watchlists[1].missCount = 0

\* C31: watchlists are processed one at a time: at no moment are two calls of
\* processWatchlist under way (a tick stands in the loop, at the watchlist
\* loaded[idx], from the load of the watchlists until the save of that call),
\* so no watchlist document has two updates in flight.
C31_InLoop == {i \in DOMAIN ticks : ticks[i].pc = "watch"}
C31_OneAtATime ==
    \A i, j \in C31_InLoop :
       i # j => ticks[i].loaded[ticks[i].idx].id # ticks[j].loaded[ticks[j].idx].id

====
